---- MODULE Spec2Model ----
(***************************************************************************)
(* Benchmark construction and evaluation pipeline of DiffAgent:            *)
(*   - eval/dataset_builder/auto_labeler.py  (AutoLabeler)                 *)
(*   - eval/dataset_builder/data_filter.py   (DataFilter)                  *)
(*   - eval/metrics.py                       (EvaluationMetrics)           *)
(* Each component is a state machine over its own variables; a             *)
(* specification per component keeps the others at rest.                   *)
(***************************************************************************)
EXTENDS Integers, Sequences, FiniteSets, TLC

VARIABLES
    pr_data,            \* AutoLabeler.label_pr: the candidate record handed in
    labeled,            \* AutoLabeler.label_pr: <<the record it returned last>>
    true_positives, false_positives, true_negatives, false_negatives,
    severity_stats, category_stats,   \* EvaluationMetrics counters
    pending,            \* (ground truth, prediction) pairs still to be fed
    fed,                \* the pairs fed to add_prediction since the last reset
    before,             \* the counters as they were before the latest operation
    last_op,            \* the latest operation on the engine: none, add or reset
    data,               \* balance_dataset: the content of the input file
    target_ratio,       \* balance_dataset: the target_ratio argument
    rng_state,          \* the state of the module-level generator of `random`
    output_file,        \* balance_dataset: <<the content of the output file>>
    runs,               \* the outcomes of the balance_dataset calls on data
    filter_input,       \* filter_dataset: the content of the input file
    filters,            \* filter_dataset: the filters argument
    filter_output,      \* filter_dataset: <<the content of the output file>>
    filter_stats,       \* filter_dataset: <<the statistics it returned>>
    convert_input,      \* convert_to_benchmark_format: the content of the input file
    max_items,          \* convert_to_benchmark_format: <<max_items>>, <<>> for None
    converted,          \* convert_to_benchmark_format: <<the count it returned>>
    benchmark_file,     \* <<the content of the benchmark file>>
    validation,         \* validate_dataset: <<how the call ended>>
    benchmark_data,     \* BenchmarkRunner: the test cases loaded
    model_names,        \* run_all: the model names asked for
    next_model,         \* run_all: the position of the next name to take
    current,            \* <<the state of the evaluate_model call in progress>>
    results,            \* run_all: the results of the models evaluated, in order
    calls,              \* every validator call made so far, with what it did
    run_raised,         \* the exception run_all ended with, "" if none
    strategies,         \* collect_dataset: the strategies argument
    max_per_strategy,   \* collect_dataset: the max_per_strategy argument
    position,           \* collect_dataset: how many strategies have been taken
    stage,              \* where collect_dataset is: loop, search, enrich, returned
    prs,                \* search_config_prs: the hits gathered so far
    page,               \* search_config_prs: the next page to request
    hits,               \* the hits search_config_prs returned for the strategy
    handled,            \* how many of them the enrichment loop has taken
    enrich_log,         \* the _extract_pr_data calls of the strategy, with their requests
    page_requests,      \* every search page request issued, with its answer
    all_data,           \* collect_dataset: the records accumulated
    collected,          \* collect_dataset: <<the list it returned>>
    review_data,        \* ManualReviewer.data
    to_review,          \* review_all: the indices of items_to_review still to come
    review_idx,         \* review_all: idx, the number of items reviewed
    changes_made,       \* ManualReviewer.changes_made
    reviewed_file,      \* review_all: <<the content of the output file>>
    review_stage        \* where review_all is: idle, reviewing or saved

NoValue == "None"

(***************************************************************************)
(* IEEE-754 binary64 arithmetic on the values the labeler uses.            *)
(* A double x in [2^-4, 8) is the pair [hi, lo] with                       *)
(* x = (hi * 2^28 + lo) * 2^-56; every double of that range is a whole     *)
(* multiple of 2^-56.  Results are rounded to nearest, ties to even, at    *)
(* the precision (53 bits) of the binade they fall in.                     *)
(***************************************************************************)
Base == 2^28

\* the spacing of doubles, in units of 2^-56, in the binade of hi * 2^28
Ulp(hi) ==
    IF hi >= 2^30 THEN 64
    ELSE IF hi >= 2^29 THEN 32
    ELSE IF hi >= 2^28 THEN 16
    ELSE IF hi >= 2^27 THEN 8
    ELSE IF hi >= 2^26 THEN 4
    ELSE IF hi >= 2^25 THEN 2
    ELSE 1

\* the pair for hi * 2^28 + lo when lo may have reached 2^28
Carry(hi, lo) ==
    IF lo >= Base THEN [hi |-> hi + 1, lo |-> lo - Base] ELSE [hi |-> hi, lo |-> lo]

\* does lo + rnum / rden round up to the next multiple of u (ties to even)
RoundsUp(lo, u, rnum, rden) ==
    \/ 2 * ((lo % u) * rden + rnum) > u * rden
    \/ 2 * ((lo % u) * rden + rnum) = u * rden /\ ((lo \div u) % 2) = 1

RoundTo(hi, lo, u, rnum, rden) ==
    Carry(hi, (lo - (lo % u)) + (IF RoundsUp(lo, u, rnum, rden) THEN u ELSE 0))

\* round (hi * 2^28 + lo + rnum / rden) * 2^-56 to the nearest double
RoundNearestEven(hi, lo, rnum, rden) == RoundTo(hi, lo, Ulp(hi), rnum, rden)

\* round an exact sum or difference given as a pair
RoundPair(x) == RoundNearestEven(x.hi, x.lo, 0, 1)

\* a + b in binary64
FAdd(a, b) == RoundPair(Carry(a.hi + b.hi, a.lo + b.lo))

\* a - b in binary64, for a >= b (the labeler never goes below 0.2)
FSub(a, b) == RoundPair(Carry(a.hi - b.hi - 1, a.lo + Base - b.lo))

FLt(a, b) == a.hi < b.hi \/ (a.hi = b.hi /\ a.lo < b.lo)
FLe(a, b) == ~FLt(b, a)
FMin(a, b) == IF FLt(b, a) THEN b ELSE a
FMax(a, b) == IF FLt(a, b) THEN b ELSE a

\* one step of a long division by 100 in base 2^14: the remainder of the
\* digits so far, brought down to the next digit
Down(r) == (r % 100) * 2^14
Digit(n) == n \div 100
Dec4(n3, n2, n1, n0) ==
    RoundNearestEven(Digit(n3) * 2^14 + Digit(n2), Digit(n1) * 2^14 + Digit(n0),
                     n0 % 100, 100)
Dec3(n3, n2, n1) == Dec4(n3, n2, n1, Down(n1))
Dec2(n3, n2) == Dec3(n3, n2, Down(n2))
Dec1(n3) == Dec2(n3, Down(n3))
\* the double a decimal literal k/100 denotes (7 <= k < 400, or k = 0):
\* long division of k * 2^56 by 100 in base 2^14, then rounding
Dec(k) == Dec1(k * 2^14)

(***************************************************************************)
(* AutoLabeler                                                             *)
(***************************************************************************)
\* str.__contains__ on the words of the model's vocabulary: kw in word
Substr(kw, word) ==
    \/ kw = word
    \/ kw = "fix" /\ word = "hotfix"
    \/ kw = "bug" /\ word = "debug"

\* kw in text, for a text given as the set of its words
InText(kw, text) == \E w \in text : Substr(kw, w)

error_keywords ==
    {"revert", "fix", "bug", "issue", "problem", "incorrect",
     "wrong", "broken", "error", "mistake", "rollback", "hotfix"}
security_keywords ==
    {"security", "vulnerability", "exposed", "leak", "secret",
     "token", "password", "key", "credential", "auth"}
inconsistency_keywords == {"mismatch", "inconsistent", "conflict", "differ", "sync"}
invalid_keywords == {"invalid", "out of range", "too high", "too low", "exceed"}

\* AutoLabeler._has_negative_comments: some comment matches some pattern
\* (a comment is the set of its words; the patterns that are single words)
negative_words ==
    {"incorrect", "wrong", "invalid", "issue", "problem", "error", "revert", "rollback"}
_has_negative_comments(comments) ==
    \E c \in comments : \E p \in negative_words : InText(p, c)

_extract_signals(pr) ==
    LET all_text == pr.title \cup pr.body
    IN  [ merged |-> pr.merged,
          has_revert_keyword |-> \E kw \in {"revert", "rollback"} : InText(kw, pr.title),
          has_fix_keyword |-> \E kw \in {"fix", "hotfix"} : InText(kw, pr.title),
          has_bug_keyword |-> InText("bug", all_text),
          has_error_keyword |-> \E kw \in error_keywords : InText(kw, all_text),
          has_security_keyword |-> \E kw \in security_keywords : InText(kw, all_text),
          has_inconsistency_keyword |->
              \E kw \in inconsistency_keywords : InText(kw, all_text),
          has_invalid_keyword |-> \E kw \in invalid_keywords : InText(kw, all_text),
          has_bug_label |-> \E l \in {"bug", "bugfix", "fix"} : l \in pr.labels,
          has_security_label |-> "security" \in pr.labels,
          has_hotfix_label |-> "hotfix" \in pr.labels,
          has_changes_requested |-> "CHANGES_REQUESTED" \in pr.reviews,
          has_approved |-> "APPROVED" \in pr.reviews,
          has_negative_comments |-> _has_negative_comments(pr.comments),
          collection_strategy |-> pr.collection_strategy ]

\* the literals of _determine_errors and label_pr
START_CONFIDENCE == Dec(50)
W_REVERT == Dec(35)
W_BUG_LABEL == Dec(25)
W_CHANGES_REQUESTED == Dec(15)
W_FIX == Dec(20)
W_NEGATIVE_COMMENTS == Dec(15)
W_STRATEGY == Dec(10)
W_APPROVED_MERGED == Dec(20)
W_MERGED_NO_KEYWORD == Dec(10)
F_ZERO == Dec(0)
F_ONE == Dec(100)
DECISION_THRESHOLD == Dec(60)
REVIEW_THRESHOLD == Dec(80)

\* one rule of _determine_errors: confidence += w when the condition holds
Bump(c, cond, w) == IF cond THEN FAdd(c, w) ELSE c
Drop(c, cond, w) == IF cond THEN FSub(c, w) ELSE c

\* the sum of the triggered rules, before clamping
RuleSum(s) ==
    LET c0 == START_CONFIDENCE
        c1 == Bump(c0, s.has_revert_keyword, W_REVERT)
        c2 == Bump(c1, s.has_bug_label \/ s.has_hotfix_label, W_BUG_LABEL)
        c3 == Bump(c2, s.has_changes_requested, W_CHANGES_REQUESTED)
        c4 == Bump(c3, s.has_fix_keyword, W_FIX)
        c5 == Bump(c4, s.has_negative_comments, W_NEGATIVE_COMMENTS)
        c6 == Bump(c5, s.collection_strategy \in
                       {"reverted", "fix", "bug", "hotfix", "rollback"}, W_STRATEGY)
        c7 == Drop(c6, s.has_approved /\ s.merged, W_APPROVED_MERGED)
        c8 == Drop(c7, ~s.has_error_keyword /\ s.merged, W_MERGED_NO_KEYWORD)
    IN  c8

ClampMissing(c) == c
Clamp(c) == FMax(F_ZERO, FMin(F_ONE, c))

Threshold(confidence) == FLt(DECISION_THRESHOLD, confidence)

Decide(confidence) ==
    [has_errors |-> Threshold(confidence), confidence |-> confidence]

_determine_errors(s) == Decide(Clamp(RuleSum(s)))

_determine_category(s) ==
    IF s.has_security_keyword \/ s.has_security_label THEN "security"
    ELSE IF s.has_inconsistency_keyword THEN "inconsistency"
    ELSE IF s.has_invalid_keyword THEN "invalid_value"
    ELSE "best_practice"

_determine_severity(s, category) ==
    IF category = "security" THEN "critical"
    ELSE IF s.has_revert_keyword \/ s.has_hotfix_label THEN "critical"
    ELSE IF s.has_changes_requested THEN "warning"
    ELSE "warning"

NeedsReviewInclusive(confidence) == FLe(confidence, REVIEW_THRESHOLD)
NeedsReview(confidence) == FLt(confidence, REVIEW_THRESHOLD)

\* the record label_pr builds from the signals, the decision d and the category
LabelRecord(signals, d, category) ==
    [ ground_truth |->
          [ has_errors |-> d.has_errors,
            confidence |-> d.confidence,
            category |-> category,
            severity |-> IF d.has_errors THEN _determine_severity(signals, category)
                         ELSE NoValue,
            signals |-> signals ],
      requires_manual_review |-> NeedsReview(d.confidence) ]

LabelDecided(signals, d) ==
    LabelRecord(signals, d,
                IF d.has_errors THEN _determine_category(signals) ELSE NoValue)

LabelSignals(signals) == LabelDecided(signals, _determine_errors(signals))

label_pr(pr) == LabelSignals(_extract_signals(pr))

\* candidate records the collector can hand over
TitleWords == {"revert", "hotfix", "update"}
BodyWords == {"bug", "secret"}
LabelWords == {"bug", "hotfix"}
ReviewStates == {"CHANGES_REQUESTED", "APPROVED"}
CommentSets == {{}, {{"wrong"}}, {{"thanks"}}}
Strategies == {"reverted", "security", NoValue}

Candidates ==
    [ title : SUBSET TitleWords, body : SUBSET BodyWords, labels : SUBSET LabelWords,
      reviews : SUBSET ReviewStates, comments : CommentSets, merged : BOOLEAN,
      collection_strategy : Strategies ]

(***************************************************************************)
(* EvaluationMetrics                                                       *)
(***************************************************************************)
\* a string is the sequence of its characters
UPPER == <<"A", "B", "C", "D", "E", "F", "G", "H", "I", "J", "K", "L", "M",
           "N", "O", "P", "Q", "R", "S", "T", "U", "V", "W", "X", "Y", "Z">>
LOWER == <<"a", "b", "c", "d", "e", "f", "g", "h", "i", "j", "k", "l", "m",
           "n", "o", "p", "q", "r", "s", "t", "u", "v", "w", "x", "y", "z">>
Whitespace == {" ", "\t", "\n", "\r"}

\* the lower-case letter of every upper-case letter
LowerOf == [c \in {UPPER[i] : i \in DOMAIN UPPER} |->
               LOWER[CHOOSE i \in DOMAIN UPPER : UPPER[i] = c]]

LowerChar(c) == IF c \in DOMAIN LowerOf THEN LowerOf[c] ELSE c

\* str.lower
StrLower(s) == [i \in 1..Len(s) |-> LowerChar(s[i])]

\* str.replace for a single character
StrReplace(s, old, new) == [i \in 1..Len(s) |-> IF s[i] = old THEN new ELSE s[i]]

\* str.strip
RECURSIVE LStrip(_)
LStrip(s) == IF s # <<>> /\ s[1] \in Whitespace THEN LStrip(Tail(s)) ELSE s
RECURSIVE RStrip(_)
RStrip(s) ==
    IF s # <<>> /\ s[Len(s)] \in Whitespace THEN RStrip(SubSeq(s, 1, Len(s) - 1)) ELSE s
StrStrip(s) == RStrip(LStrip(s))

_normalize_path(path) == StrLower(StrStrip(StrReplace(path, "\\", "/")))

\* dict.get(key, default)
Get(d, key, default) == IF key \in DOMAIN d THEN d[key] ELSE default

ZeroStat == [tp |-> 0, fp |-> 0, fn |-> 0]

\* self.severity_stats[severity][k] += 1, guarded by `if severity in self.severity_stats`
IncSeverity(sev, severity, k) ==
    IF severity \in DOMAIN sev THEN [sev EXCEPT ![severity][k] = @ + 1] ELSE sev

\* self.category_stats[category][k] += 1 on a defaultdict
IncCategory(cat, category, k) ==
    LET c == IF category \in DOMAIN cat THEN cat ELSE (category :> ZeroStat) @@ cat
    IN  [c EXCEPT ![category][k] = @ + 1]

\* the errors validators and benchmark files list
PATH_UNIX == <<"c", "/", "s", ".", "p", "y">>
PATH_WIN == <<" ", "C", "\\", "S", ".", "p", "y", " ">>
PATH_OTHER == <<"a", ".", "y", "m", "l">>
OPT_UPPER == <<"D", "E", "B", "U", "G">>
OPT_LOWER == <<"d", "e", "b", "u", "g">>
OPT_OTHER == <<"P", "O", "R", "T">>

Errors ==
    { [file_path |-> PATH_UNIX, option_name |-> OPT_UPPER,
       severity |-> "critical", category |-> "security"],
      [file_path |-> PATH_WIN, option_name |-> OPT_LOWER, severity |-> "high"],
      [file_path |-> PATH_OTHER, option_name |-> OPT_OTHER, category |-> "inconsistency"] }

\* the key _match_errors compares two errors by, for every error of the model
MatchKey(e) ==
    <<_normalize_path(Get(e, "file_path", <<>>)), StrLower(Get(e, "option_name", <<>>))>>
KeyOf == [e \in Errors |-> MatchKey(e)]

\* the condition of the inner loop of _match_errors
ErrorsMatch(pred_error, gt_error) ==
    /\ KeyOf[pred_error][1] = KeyOf[gt_error][1]
    /\ KeyOf[pred_error][2] = KeyOf[gt_error][2]

\* the least index of a set of indices, 0 for the empty set
MinOrZero(c) == IF c = {} THEN 0 ELSE CHOOSE j \in c : \A k \in c : j <= k

\* the greatest index of a set of indices, 0 for the empty set
MaxOrZero(c) == IF c = {} THEN 0 ELSE CHOOSE j \in c : \A k \in c : j >= k

FirstMatchLastGt(gt_errors, pred_error, matched_gt) ==
    MaxOrZero({j \in 1..Len(gt_errors) :
                  j \notin matched_gt /\ ErrorsMatch(pred_error, gt_errors[j])})

FirstMatchAnyGt(gt_errors, pred_error, matched_gt) ==
    MinOrZero({j \in 1..Len(gt_errors) : ErrorsMatch(pred_error, gt_errors[j])})

\* the inner loop: the first index j not in matched_gt whose error matches, 0 if none
FirstMatch(gt_errors, pred_error, matched_gt) ==
    MinOrZero({j \in 1..Len(gt_errors) :
                  j \notin matched_gt /\ ErrorsMatch(pred_error, gt_errors[j])})

\* the outer loop of _match_errors from predicted error i on; m carries
\* matched_gt, matched_pred, the pairs made and the two stats tables
\* the body of the inner `if`: predicted error i is matched to ground truth j
Matched(gt_errors, i, j, m) ==
    IF j = 0 THEN m
    ELSE [ matched_gt |-> m.matched_gt \cup {j},
           matched_pred |-> m.matched_pred \cup {i},
           pairs |-> Append(m.pairs, <<i, j>>),
           sev |-> IncSeverity(m.sev, Get(gt_errors[j], "severity", "warning"), "tp"),
           cat |-> IncCategory(m.cat, Get(gt_errors[j], "category", "other"), "tp") ]

MatchLoopFirstOnly(gt_errors, pred_errors, i, m) ==
    IF i > Len(pred_errors) \/ i > 1 THEN m
    ELSE Matched(gt_errors, i, FirstMatch(gt_errors, pred_errors[i], m.matched_gt), m)

RECURSIVE MatchLoop(_, _, _, _)
MatchLoop(gt_errors, pred_errors, i, m) ==
    IF i > Len(pred_errors) THEN m
    ELSE MatchLoop(gt_errors, pred_errors, i + 1,
                   Matched(gt_errors, i,
                           FirstMatch(gt_errors, pred_errors[i], m.matched_gt), m))

\* the two counting loops: every error of errs whose index is not in matched
\* raises counter k (fp or fn) of its own severity and category
RECURSIVE CountUnmatched(_, _, _, _, _)
CountUnmatched(errs, matched, k, i, m) ==
    IF i > Len(errs) THEN m
    ELSE IF i \in matched THEN CountUnmatched(errs, matched, k, i + 1, m)
    ELSE CountUnmatched(errs, matched, k, i + 1,
           [m EXCEPT !.sev = IncSeverity(@, Get(errs[i], "severity", "warning"), k),
                     !.cat = IncCategory(@, Get(errs[i], "category", "other"), k)])

CountFalseNegativesSkipped(gt_errors, m) == m

\* EvaluationMetrics._match_errors on the stats tables sev and cat
CountFalsePositives(pred_errors, m) ==
    CountUnmatched(pred_errors, m.matched_pred, "fp", 1, m)
CountFalseNegatives(gt_errors, m) ==
    CountUnmatched(gt_errors, m.matched_gt, "fn", 1, m)

_match_errors(gt_errors, pred_errors, sev, cat) ==
    CountFalseNegatives(gt_errors,
        CountFalsePositives(pred_errors,
            MatchLoop(gt_errors, pred_errors, 1,
                [ matched_gt |-> {}, matched_pred |-> {}, pairs |-> <<>>,
                  sev |-> sev, cat |-> cat ])))

CaseBucketSwapped(gt_has_errors, pred_has_errors) ==
    IF gt_has_errors /\ pred_has_errors THEN "tp"
    ELSE IF ~gt_has_errors /\ ~pred_has_errors THEN "tn"
    ELSE IF ~gt_has_errors /\ pred_has_errors THEN "fn"
    ELSE "fp"

\* the bucket of the binary classification
CaseBucket(gt_has_errors, pred_has_errors) ==
    IF gt_has_errors /\ pred_has_errors THEN "tp"
    ELSE IF ~gt_has_errors /\ ~pred_has_errors THEN "tn"
    ELSE IF ~gt_has_errors /\ pred_has_errors THEN "fp"
    ELSE "fn"

\* EvaluationMetrics.reset
reset ==
    [ true_positives |-> 0, false_positives |-> 0,
      true_negatives |-> 0, false_negatives |-> 0,
      severity_stats |-> [s \in {"critical", "warning", "info"} |-> ZeroStat],
      category_stats |-> <<>> ]

AccumulateDropsTn(e, b, m) ==
    [ true_positives |-> e.true_positives + (IF b = "tp" THEN 1 ELSE 0),
      true_negatives |-> e.true_negatives,
      false_positives |-> e.false_positives + (IF b = "fp" THEN 1 ELSE 0),
      false_negatives |-> e.false_negatives + (IF b = "fn" THEN 1 ELSE 0),
      severity_stats |-> m.sev,
      category_stats |-> m.cat ]

\* the engine e after a call that fell in bucket b and left the stats of m
Accumulate(e, b, m) ==
    [ true_positives |-> e.true_positives + (IF b = "tp" THEN 1 ELSE 0),
      true_negatives |-> e.true_negatives + (IF b = "tn" THEN 1 ELSE 0),
      false_positives |-> e.false_positives + (IF b = "fp" THEN 1 ELSE 0),
      false_negatives |-> e.false_negatives + (IF b = "fn" THEN 1 ELSE 0),
      severity_stats |-> m.sev,
      category_stats |-> m.cat ]

add_predictionFreshStats(e, ground_truth, prediction) ==
    Accumulate(e,
        CaseBucket(Get(ground_truth, "has_errors", FALSE),
                   Get(prediction, "has_errors", FALSE)),
        _match_errors(Get(ground_truth, "errors", <<>>), Get(prediction, "errors", <<>>),
                      reset.severity_stats, reset.category_stats))

\* EvaluationMetrics.add_prediction on an engine state e
add_prediction(e, ground_truth, prediction) ==
    Accumulate(e,
        CaseBucket(Get(ground_truth, "has_errors", FALSE),
                   Get(prediction, "has_errors", FALSE)),
        _match_errors(Get(ground_truth, "errors", <<>>), Get(prediction, "errors", <<>>),
                      e.severity_stats, e.category_stats))

\* precision, recall and f1_score as exact fractions <<numerator, denominator>>;
\* a zero denominator gives 0.0
precision(tp, fp) == IF tp + fp = 0 THEN <<0, 1>> ELSE <<tp, tp + fp>>
recall(tp, fn) == IF tp + fn = 0 THEN <<0, 1>> ELSE <<tp, tp + fn>>
f1_score(p, r) ==
    IF p[1] * r[2] + r[1] * p[2] = 0 THEN <<0, 1>>
    ELSE <<2 * p[1] * r[1], p[1] * r[2] + r[1] * p[2]>>

MaxErrs == 2
MaxFed == 3

\* every list of at most MaxErrs errors, and every argument pair made of them
ErrorLists == UNION {[1..n -> Errors] : n \in 0..MaxErrs}
Pairs(lists) ==
    { [ground_truth |-> [has_errors |-> gh, errors |-> ge],
       prediction |-> [has_errors |-> ph, errors |-> pe]] :
         gh \in BOOLEAN, ph \in BOOLEAN, ge \in lists, pe \in lists }

\* the test cases of a small benchmark
E_CRITICAL == CHOOSE e \in Errors : Get(e, "severity", "warning") = "critical"
E_HIGH == CHOOSE e \in Errors : Get(e, "severity", "warning") = "high"
E_NOSEV == CHOOSE e \in Errors : "severity" \notin DOMAIN e
\* a validator reports has_errors exactly when it lists errors; a ground truth
\* may have has_errors without any error pinned down
Cases ==
    { [ground_truth |-> [has_errors |-> gh, errors |-> ge],
       prediction |-> [has_errors |-> ph,
                       errors |-> IF ph THEN <<E_NOSEV, E_CRITICAL>> ELSE <<>>]] :
         gh \in BOOLEAN, ph \in BOOLEAN, ge \in {<<>>, <<E_HIGH, E_CRITICAL>>} }

\* what an engine may have been fed before the call under study
PriorHistories ==
    {<<>>} \cup {<<c>> : c \in {d \in Cases : d.ground_truth.has_errors
                                              /\ ~d.prediction.has_errors}}

\* the engine after feeding the pairs of a sequence, one after the other
RECURSIVE Replay(_, _)
Replay(e, pairs) ==
    IF pairs = <<>> THEN e
    ELSE Replay(add_prediction(e, pairs[1].ground_truth, pairs[1].prediction),
                Tail(pairs))

(***************************************************************************)
(* DataFilter.balance_dataset (eval/dataset_builder/data_filter.py).       *)
(* A list is a sequence; a dict is a function from its keys; the module-   *)
(* level generator of `random` is one value, rng_state, shared by every    *)
(* caller in the process.                                                  *)
(***************************************************************************)
SEED == 42

\* The generator behind random.seed / random.sample / random.shuffle.  The
\* Mersenne Twister is abstracted to a full-period generator over RngStates
\* whose words are RngBits wide: the same state always yields the same draws,
\* different states yield different ones.
RngBits == 3
RngStates == 0 .. (2^RngBits - 1)
RngStep(s) == (5 * s + 3) % (2^RngBits)

\* random.seed(a): the state depends on a alone
random_seed(a) == a % (2^RngBits)

\* random.getrandbits(k): the top k bits of the next word
getrandbits(s, k) ==
    [value |-> RngStep(s) \div 2^(RngBits - k), state |-> RngStep(s)]

\* int.bit_length()
bit_length(n) ==
    IF n = 0 THEN 0 ELSE IF n < 2 THEN 1 ELSE IF n < 4 THEN 2 ELSE 3

\* Random._randbelow_with_getrandbits(n): draw bit_length(n) bits until the
\* value is below n
RECURSIVE Redraw(_, _)
Redraw(n, g) ==
    IF g.value >= n THEN Redraw(n, getrandbits(g.state, bit_length(n))) ELSE g

_randbelow(s, n) == Redraw(n, getrandbits(s, bit_length(n)))

\* random.sample(population, k), the pool branch taken for n <= 21:
\*   for i in range(k): j = randbelow(n - i); result[i] = pool[j];
\*                      pool[j] = pool[n - i - 1]
RECURSIVE SampleLoop(_, _, _, _, _, _)
SampleTake(pool, n, k, i, result, g) ==
    SampleLoop([pool EXCEPT ![g.value + 1] = pool[n - i]], n, k, i + 1,
               Append(result, pool[g.value + 1]), g.state)

SampleLoop(pool, n, k, i, result, s) ==
    IF i >= k THEN [value |-> result, state |-> s]
    ELSE SampleTake(pool, n, k, i, result, _randbelow(s, n - i))

random_sample(s, population, k) ==
    SampleLoop(population, Len(population), k, 0, <<>>, s)

\* random.shuffle(x):
\*   for i in reversed(range(1, len(x))): j = randbelow(i + 1); swap x[i], x[j]
RECURSIVE ShuffleLoop(_, _, _)
ShuffleSwap(x, i, g) ==
    ShuffleLoop([x EXCEPT ![i + 1] = x[g.value + 1], ![g.value + 1] = x[i + 1]],
                i - 1, g.state)

ShuffleLoop(x, i, s) ==
    IF i < 1 THEN [value |-> x, state |-> s]
    ELSE ShuffleSwap(x, i, _randbelow(s, i + 1))

random_shuffle(s, x) == ShuffleLoop(x, Len(x) - 1, s)

\* d.get('ground_truth', {}).get('has_errors', False)
HasErrors(d) == Get(Get(d, "ground_truth", <<>>), "has_errors", FALSE)
NoErrors(d) == ~HasErrors(d)

\* n * a in binary64, for an int n and a double a
FMulInt(n, a) ==
    RoundPair([hi |-> n * a.hi + (n * a.lo) \div Base, lo |-> (n * a.lo) % Base])

\* int(x) of a double x >= 0: truncation
Trunc(a) == a.hi \div Base

\* errors_desired = int(total_desired * target_ratio)
errors_desired(total_desired, ratio) == Trunc(FMulInt(total_desired, ratio))

valid_desiredWholeInput(total_desired, errors) == total_desired
\* valid_desired = total_desired - errors_desired
valid_desired(total_desired, errors) == total_desired - errors

SeedSkipped(s) == s
\* random.seed(42): whatever the generator's state was, it is the seed's now
Seed(s) == random_seed(SEED)

DrawPadded(s, part, desired) ==
    IF Len(part) > desired THEN random_sample(s, part, desired)
    ELSE IF part # <<>> /\ Len(part) < desired
         THEN [value |-> Append(part, part[1]), state |-> s]
         ELSE [value |-> part, state |-> s]
\* if len(part) > desired: part = random.sample(part, desired)
Draw(s, part, desired) ==
    IF Len(part) > desired THEN random_sample(s, part, desired)
    ELSE [value |-> part, state |-> s]

\* the file written, and the return value or the exception of line 204
Save(total, with_errors, without_errors, sh) ==
    [ wrote |-> <<sh.value>>,
      state |-> sh.state,
      result |-> IF Len(sh.value) = 0 THEN [raised |-> "ZeroDivisionError"]
                 ELSE [ original_total |-> total,
                        balanced_total |-> Len(sh.value),
                        with_errors |-> Len(with_errors),
                        without_errors |-> Len(without_errors),
                        ratio |-> <<Len(with_errors), Len(sh.value)>> ] ]

\* balanced = with_errors + without_errors; random.shuffle(balanced)
Combine(total, with_errors, wo) ==
    Save(total, with_errors, wo.value,
         random_shuffle(wo.state, with_errors \o wo.value))

DrawValid(total, we, without_errors, desired) ==
    Combine(total, we.value, Draw(we.state, without_errors, desired))

DrawErrors(total, with_errors, without_errors, errors, s) ==
    DrawValid(total, Draw(s, with_errors, errors), without_errors,
              valid_desired(total, errors))

\* balance_dataset(input_file, output_file, target_ratio) with the generator in
\* state s: what it wrote (<<>>: nothing), what it returned or raised, and the
\* state it left the generator in.  Line 175 divides by len(data) first.
balance_dataset(input, ratio, s) ==
    IF Len(input) = 0
    THEN [wrote |-> <<>>, state |-> s, result |-> [raised |-> "ZeroDivisionError"]]
    ELSE DrawErrors(Len(input), SelectSeq(input, HasErrors),
                    SelectSeq(input, NoErrors),
                    errors_desired(Len(input), ratio), Seed(s))

\* the records and ratios balance is run on
MaxData == 4
REC_ERR_A == [id |-> 1, ground_truth |-> [has_errors |-> TRUE]]
REC_ERR_B == [id |-> 2, ground_truth |-> [has_errors |-> TRUE]]
REC_VALID == [id |-> 3, ground_truth |-> [has_errors |-> FALSE]]
REC_UNLABELED == [id |-> 4]
Records == {REC_ERR_A, REC_ERR_B, REC_VALID, REC_UNLABELED}
Datasets == UNION {[1..n -> Records] : n \in 0..MaxData}
Ratios == {Dec(0), Dec(30), Dec(50), Dec(100)}
OTHER_DATA == <<REC_VALID, REC_ERR_A, REC_UNLABELED, REC_ERR_B>>

(***************************************************************************)
(* DataFilter.filter_dataset and _should_keep.  A file name is a sequence  *)
(* of characters; a diff is represented by its length, the only thing the  *)
(* filter reads of it; a key a dict lacks is a key outside its domain.     *)
(***************************************************************************)
MIN_DIFF_LEN == 50
MAX_DIFF_LEN == 50000

\* self.config_file_patterns: every pattern is a choice of literal suffixes
\* anchored by `$`
config_file_patterns ==
    << { <<".", "p", "r", "o", "p", "e", "r", "t", "i", "e", "s">> },
    { <<".", "y", "m", "l">>,
         <<".", "y", "a", "m", "l">> },
    { <<".", "j", "s", "o", "n">> },
    { <<".", "e", "n", "v">> },
    { <<".", "i", "n", "i">> },
    { <<".", "c", "o", "n", "f">>,
         <<".", "c", "o", "n", "f", "i", "g">> },
    { <<"D", "o", "c", "k", "e", "r", "f", "i", "l", "e">> },
    { <<"d", "o", "c", "k", "e", "r", "-", "c", "o", "m", "p", "o", "s", "e", ".", "y", "m", "l">>,
         <<"d", "o", "c", "k", "e", "r", "-", "c", "o", "m", "p", "o", "s", "e", ".", "y", "a", "m", "l">> },
    { <<"s", "e", "t", "t", "i", "n", "g", "s", ".", "p", "y">> },
    { <<"c", "o", "n", "f", "i", "g", ".", "p", "y">> } >>

EndsWith(name, suffix) ==
    /\ Len(name) >= Len(suffix)
    /\ SubSeq(name, Len(name) - Len(suffix) + 1, Len(name)) = suffix

\* re.search(pattern + '$', name): `$` matches at the end of the name and also
\* just before a newline that ends it
SearchAtEnd(name, suffix) ==
    \/ EndsWith(name, suffix)
    \/ /\ name # <<>>
       /\ name[Len(name)] = "\n"
       /\ EndsWith(SubSeq(name, 1, Len(name) - 1), suffix)

re_search(pattern, name) == \E suffix \in pattern : SearchAtEnd(name, suffix)

\* DataFilter._has_config_files
_has_config_files(pr) ==
    \E i \in 1..Len(Get(pr, "files", <<>>)) :
        \E p \in 1..Len(config_file_patterns) :
            re_search(config_file_patterns[p],
                      Get(Get(pr, "files", <<>>)[i], "filename", <<>>))

\* len(pr_data.get('diff', ''))
DiffLen(pr) == Get(pr, "diff", 0)
\* pr_data.get('ground_truth', {})
GroundTruth(pr) == Get(pr, "ground_truth", <<>>)
\* `x in required` for a list
InList(x, list) == \E i \in 1..Len(list) : list[i] = x
\* `category not in required_categories`, the category being None when the
\* ground truth has none
NotListed(gt, key, list) == key \notin DOMAIN gt \/ ~InList(gt[key], list)

_should_keepConfidenceFirst(pr, f) ==
    IF ~_has_config_files(pr) THEN <<FALSE, "no_config_files">>
    ELSE IF FLt(Get(GroundTruth(pr), "confidence", F_ZERO),
                Get(f, "min_confidence", F_ZERO))
    THEN <<FALSE, "low_confidence">>
    ELSE IF DiffLen(pr) < MIN_DIFF_LEN THEN <<FALSE, "diff_too_small">>
    ELSE IF DiffLen(pr) > MAX_DIFF_LEN THEN <<FALSE, "diff_too_large">>
    ELSE IF Get(f, "exclude_needs_review", FALSE)
            /\ Get(pr, "requires_manual_review", FALSE)
    THEN <<FALSE, "requires_manual_review">>
    ELSE IF "has_errors" \in DOMAIN f
            /\ Get(GroundTruth(pr), "has_errors", FALSE) # f.has_errors
    THEN <<FALSE, "has_errors_mismatch">>
    ELSE IF Get(f, "categories", <<>>) # <<>>
            /\ NotListed(GroundTruth(pr), "category", f.categories)
    THEN <<FALSE, "category_mismatch">>
    ELSE IF Get(f, "severities", <<>>) # <<>>
            /\ NotListed(GroundTruth(pr), "severity", f.severities)
    THEN <<FALSE, "severity_mismatch">>
    ELSE <<TRUE, NoValue>>

_should_keepOpenBounds(pr, f) ==
    IF ~_has_config_files(pr) THEN <<FALSE, "no_config_files">>
    ELSE IF DiffLen(pr) <= MIN_DIFF_LEN THEN <<FALSE, "diff_too_small">>
    ELSE IF DiffLen(pr) >= MAX_DIFF_LEN THEN <<FALSE, "diff_too_large">>
    ELSE IF FLe(Get(GroundTruth(pr), "confidence", F_ZERO),
                Get(f, "min_confidence", F_ZERO))
    THEN <<FALSE, "low_confidence">>
    ELSE IF Get(f, "exclude_needs_review", FALSE)
            /\ Get(pr, "requires_manual_review", FALSE)
    THEN <<FALSE, "requires_manual_review">>
    ELSE IF "has_errors" \in DOMAIN f
            /\ Get(GroundTruth(pr), "has_errors", FALSE) # f.has_errors
    THEN <<FALSE, "has_errors_mismatch">>
    ELSE IF Get(f, "categories", <<>>) # <<>>
            /\ NotListed(GroundTruth(pr), "category", f.categories)
    THEN <<FALSE, "category_mismatch">>
    ELSE IF Get(f, "severities", <<>>) # <<>>
            /\ NotListed(GroundTruth(pr), "severity", f.severities)
    THEN <<FALSE, "severity_mismatch">>
    ELSE <<TRUE, NoValue>>

\* DataFilter._should_keep(pr_data, filters): (should_keep, removal_reason)
_should_keep(pr, f) ==
    IF ~_has_config_files(pr) THEN <<FALSE, "no_config_files">>
    ELSE IF DiffLen(pr) < MIN_DIFF_LEN THEN <<FALSE, "diff_too_small">>
    ELSE IF DiffLen(pr) > MAX_DIFF_LEN THEN <<FALSE, "diff_too_large">>
    ELSE IF FLt(Get(GroundTruth(pr), "confidence", F_ZERO),
                Get(f, "min_confidence", F_ZERO))
    THEN <<FALSE, "low_confidence">>
    ELSE IF Get(f, "exclude_needs_review", FALSE)
            /\ Get(pr, "requires_manual_review", FALSE)
    THEN <<FALSE, "requires_manual_review">>
    ELSE IF "has_errors" \in DOMAIN f
            /\ Get(GroundTruth(pr), "has_errors", FALSE) # f.has_errors
    THEN <<FALSE, "has_errors_mismatch">>
    ELSE IF Get(f, "categories", <<>>) # <<>>
            /\ NotListed(GroundTruth(pr), "category", f.categories)
    THEN <<FALSE, "category_mismatch">>
    ELSE IF Get(f, "severities", <<>>) # <<>>
            /\ NotListed(GroundTruth(pr), "severity", f.severities)
    THEN <<FALSE, "severity_mismatch">>
    ELSE <<TRUE, NoValue>>

\* stats['removal_reasons'][reason] = stats['removal_reasons'].get(reason, 0) + 1
CountReason(reasons, reason) == (reason :> (Get(reasons, reason, 0) + 1)) @@ reasons

\* the body of the loop of filter_dataset for one record and its verdict
FilterOne(acc, pr, verdict) ==
    IF verdict[1]
    THEN [acc EXCEPT !.filtered_data = Append(@, pr), !.stats.filtered = @ + 1]
    ELSE [acc EXCEPT !.stats.removed = @ + 1,
                     !.stats.removal_reasons = CountReason(@, verdict[2])]

RECURSIVE FilterLoop(_, _, _, _)
FilterLoop(input, f, i, acc) ==
    IF i > Len(input) THEN acc
    ELSE FilterLoop(input, f, i + 1,
                    FilterOne(acc, input[i], _should_keep(input[i], f)))

\* filter_dataset(input_file, output_file, filters): the list written to the
\* output file and the statistics returned
filter_dataset(input, f) ==
    FilterLoop(input, f, 1,
        [ filtered_data |-> <<>>,
          stats |-> [ total |-> Len(input), filtered |-> 0, removed |-> 0,
                      removal_reasons |-> <<>> ] ])

\* the records and filters filter_dataset is run on: every field of a record
\* has a list of alternatives, <<>> standing for a key the dict lacks
MaxItems == 2
FILE_MAIN_PY == [filename |-> <<"m", ".", "p", "y">>]
FILE_YAML == [filename |-> <<"a", ".", "y", "m", "l">>]
FILE_UPPER_JSON == [filename |-> <<"a", ".", "J", "S", "O", "N">>]
FILE_JSON_NEWLINE == [filename |-> <<"a", ".", "j", "s", "o", "n", "\n">>]
FILE_NO_NAME == [status |-> "added"]
FilesAlt ==
    << << <<FILE_MAIN_PY, FILE_YAML>> >>, << <<FILE_MAIN_PY, FILE_UPPER_JSON>> >>,
       << <<FILE_NO_NAME>> >>, <<>>, << <<FILE_JSON_NEWLINE>> >> >>
DiffAlt == << <<MIN_DIFF_LEN>>, <<MIN_DIFF_LEN - 1>>, <<MAX_DIFF_LEN + 1>>, <<>>,
              <<MAX_DIFF_LEN>> >>
ConfidenceAlt == << <<Dec(80)>>, <<FAdd(FAdd(Dec(50), Dec(20)), Dec(10))>>, <<>> >>
ReviewAlt == << <<FALSE>>, <<TRUE>>, <<>> >>
HasErrorsAlt == << <<TRUE>>, <<FALSE>>, <<>> >>
CategoryAlt == << <<"security">>, <<"best_practice">>, <<>> >>
SeverityAlt == << <<"critical">>, <<"info">>, <<>> >>
Alternatives ==
    <<Len(FilesAlt), Len(DiffAlt), Len(ConfidenceAlt), Len(ReviewAlt),
      Len(HasErrorsAlt), Len(CategoryAlt), Len(SeverityAlt)>>

\* a dict entry, or no entry
Opt(key, o) == IF o = <<>> THEN <<>> ELSE (key :> o[1])

\* the labeled record with alternative v[d] in field d
LabeledPr(v) ==
    Opt("files", FilesAlt[v[1]]) @@ Opt("diff", DiffAlt[v[2]])
    @@ Opt("requires_manual_review", ReviewAlt[v[4]])
    @@ ("ground_truth" :>
           (Opt("confidence", ConfidenceAlt[v[3]])
            @@ Opt("has_errors", HasErrorsAlt[v[5]])
            @@ Opt("category", CategoryAlt[v[6]])
            @@ Opt("severity", SeverityAlt[v[7]])))

\* the first alternative everywhere; one field changed; every field from the
\* k-th on changed; two fields changed
BaseChoice == [d \in 1..7 |-> 1]
Choices ==
    {BaseChoice}
    \cup UNION {{[BaseChoice EXCEPT ![d] = a] : a \in 2..Alternatives[d]} : d \in 1..7}
    \cup {[d \in 1..7 |-> IF d >= k THEN 2 ELSE 1] : k \in 1..7}
    \cup {[d \in 1..7 |-> IF d = k \/ d = k + 3 THEN 2 ELSE 1] : k \in 1..4}
PR_NO_GROUND_TRUTH == [files |-> <<FILE_YAML>>, diff |-> MIN_DIFF_LEN]
\* two records of the usage notes: a short diff, and a long one labelled 0.9
PR_SHORT_DIFF ==
    [files |-> <<FILE_YAML>>, diff |-> 30, ground_truth |-> [confidence |-> Dec(90)]]
PR_LONG_DIFF ==
    [files |-> <<FILE_YAML>>, diff |-> 40000, ground_truth |-> [confidence |-> Dec(90)]]
LabeledPrs ==
    {LabeledPr(v) : v \in Choices}
    \cup {PR_NO_GROUND_TRUTH, PR_SHORT_DIFF, PR_LONG_DIFF}

STRICT_FILTERS ==
    [ min_confidence |-> Dec(80), exclude_needs_review |-> TRUE,
      has_errors |-> TRUE, categories |-> <<"inconsistency", "security">>,
      severities |-> <<"critical">> ]
FilterSettings ==
    { <<>>,
      [min_confidence |-> Dec(80)],
      STRICT_FILTERS,
      [STRICT_FILTERS EXCEPT !.has_errors = FALSE],
      [STRICT_FILTERS EXCEPT !.categories = <<>>],
      [STRICT_FILTERS EXCEPT !.exclude_needs_review = FALSE],
      [categories |-> <<"best_practice">>, severities |-> <<"info", "warning">>] }

(***************************************************************************)
(* DataFilter.validate_dataset.  The content of a file is a JSON value     *)
(* [kind, val]: kind is dict, list, str, int, float, bool or null, and     *)
(* "invalid" stands for a text json.load rejects.                          *)
(***************************************************************************)
JDict(d) == [kind |-> "dict", val |-> d]
JList(l) == [kind |-> "list", val |-> l]
JStr(s) == [kind |-> "str", val |-> s]
JInt(n) == [kind |-> "int", val |-> n]
JFloat(x) == [kind |-> "float", val |-> x]
JBool(b) == [kind |-> "bool", val |-> b]
JNull == [kind |-> "null", val |-> 0]
JInvalid == [kind |-> "invalid", val |-> 0]

REPORT_LIMIT == 10
required_fields == <<"id", "repo", "pr_number", "diff", "ground_truth">>
ground_truth_fields == <<"has_errors", "confidence">>

\* can `field in v` be evaluated: a container or a string
Iterable(v) == v.kind \in {"dict", "list", "str"}

\* `field in v`: a key of a dict, an element of a list, a substring of a
\* string (the strings of the model hold no field name but themselves)
Contains(v, field) ==
    CASE v.kind = "dict" -> field \in DOMAIN v.val
      [] v.kind = "list" ->
             \E k \in 1..Len(v.val) : v.val[k].kind = "str" /\ v.val[k].val = field
      [] v.kind = "str" -> v.val = field

\* the issues one loop over a list of field names appends for item i
RECURSIVE MissingFields(_, _, _, _, _)
MissingFields(i, v, fields, what, k) ==
    IF k > Len(fields) THEN <<>>
    ELSE (IF Contains(v, fields[k])
          THEN <<>> ELSE <<[index |-> i, what |-> what, field |-> fields[k]]>>)
         \o MissingFields(i, v, fields, what, k + 1)

\* 0 <= confidence <= 1 for a number
InUnitRange(c) ==
    CASE c.kind = "int" -> c.val \in 0..1
      [] c.kind = "bool" -> TRUE
      [] c.kind = "float" -> FLe(Dec(0), c.val) /\ FLe(c.val, Dec(100))

Raise(name) == [raised |-> name, issues |-> <<>>]
Found(issues) == [raised |-> "", issues |-> issues]

\* lines 257-259 for the confidence c of item i
CheckConfidence(i, c, issues) ==
    IF c.kind \notin {"int", "float", "bool"} THEN Raise("TypeError")
    ELSE IF InUnitRange(c) THEN Found(issues)
    ELSE Found(Append(issues, [index |-> i, what |-> "range", field |-> "confidence"]))

\* lines 251-259 for the ground truth gt of item i
CheckGroundTruth(i, gt, issues) ==
    IF ~Iterable(gt) THEN Raise("TypeError")
    ELSE IF gt.kind # "dict" THEN Raise("AttributeError")
    ELSE CheckConfidence(i, Get(gt.val, "confidence", JInt(0)),
             issues \o MissingFields(i, gt, ground_truth_fields, "ground_truth", 1))

\* lines 250-251: item['ground_truth'] when 'ground_truth' in item
CheckItemGroundTruth(i, item, issues) ==
    IF ~Contains(item, "ground_truth") THEN Found(issues)
    ELSE IF item.kind # "dict" THEN Raise("TypeError")
    ELSE CheckGroundTruth(i, item.val["ground_truth"], issues)

\* the body of the loop for item i (counted from 0)
CheckItem(i, item, issues) ==
    IF ~Iterable(item) THEN Raise("TypeError")
    ELSE CheckItemGroundTruth(i, item,
             issues \o MissingFields(i, item, required_fields, "item", 1))

RECURSIVE CheckItems(_, _, _)
CheckNext(items, k, r) ==
    IF r.raised # "" THEN r ELSE CheckItems(items, k + 1, r.issues)

CheckItems(items, k, issues) ==
    IF k > Len(items) THEN Found(issues)
    ELSE CheckNext(items, k, CheckItem(k - 1, items[k], issues))

\* the first REPORT_LIMIT issues, the ones printed
Printed(issues) ==
    SubSeq(issues, 1, IF Len(issues) > REPORT_LIMIT THEN REPORT_LIMIT ELSE Len(issues))

\* what the call ends with: <<the bool returned>> or the exception raised, the
\* issues collected and the issues printed
Verdict(r) ==
    IF r.raised # ""
    THEN [returned |-> <<>>, raised |-> r.raised, issues |-> <<>>, printed |-> <<>>]
    ELSE [returned |-> <<r.issues = <<>> >>, raised |-> "", issues |-> r.issues,
          printed |-> Printed(r.issues)]

\* validate_dataset(input_file) on a file of the given content
validate_dataset(content) ==
    IF content.kind = "invalid" \/ content.kind # "list"
    THEN [returned |-> <<FALSE>>, raised |-> "", issues |-> <<>>, printed |-> <<>>]
    ELSE Verdict(CheckItems(content.val, 1, <<>>))

(***************************************************************************)
(* DataFilter.convert_to_benchmark_format                                  *)
(***************************************************************************)
\* one step of the long multiplication by 100 in base 2^14: digit and carry
MulStep(x, carry) == [digit |-> (100 * x + carry) % 2^14,
                      carry |-> (100 * x + carry) \div 2^14]

\* the hundredths a fraction rounds to, given the digits of 100 * fraction
\* after the point and its integer part: to nearest, ties to even
RoundCents(whole, d3, d2, d1, d0) ==
    IF d3 > 2^13 \/ (d3 = 2^13 /\ (d2 > 0 \/ d1 > 0 \/ d0 > 0))
    THEN whole + 1
    ELSE IF d3 = 2^13 THEN whole + (whole % 2)
    ELSE whole

Cents3(a, s2, s1, s0) ==
    RoundCents(100 * (a.hi \div Base) + MulStep((a.hi % Base) \div 2^14, s2.carry).carry,
               MulStep((a.hi % Base) \div 2^14, s2.carry).digit,
               s2.digit, s1.digit, s0.digit)
Cents2(a, s1, s0) == Cents3(a, MulStep(a.hi % 2^14, s1.carry), s1, s0)
Cents1(a, s0) == Cents2(a, MulStep(a.lo \div 2^14, s0.carry), s0)

\* f"{confidence:.2f}": the decimal with two places nearest to the double,
\* as its number of hundredths
Format2f(a) == Cents1(a, MulStep(a.lo % 2^14, 0))

\* data[:max_items] under `if max_items:`; max_items is <<>> for None
Limit(list, limit) ==
    IF limit # <<>> /\ limit[1] # 0
    THEN SubSeq(list, 1, IF limit[1] < Len(list) THEN limit[1] ELSE Len(list))
    ELSE list

\* the two-place decimal of a number of hundredths
Decimal2(cents) ==
    ToString(cents \div 100) \o "." \o ToString((cents % 100) \div 10)
    \o ToString(cents % 10)

\* f"Labeled via automated heuristics (confidence: {confidence:.2f})"
Reason(confidence) ==
    "Labeled via automated heuristics (confidence: "
    \o Decimal2(Format2f(confidence)) \o ")"

\* files[0]['filename'] if files else 'unknown'
FilePath(item) ==
    IF Get(item, "files", <<>>) # <<>> THEN item.files[1].filename ELSE "unknown"

\* the placeholder error of a record labelled has_errors
Placeholder(item) ==
    JDict([ file_path |-> JStr(FilePath(item)),
            option_name |-> JStr("UNKNOWN"),
            severity |-> JStr(Get(item.ground_truth, "severity", "warning")),
            reason |-> JStr(Reason(item.ground_truth.confidence)),
            category |-> JStr(Get(item.ground_truth, "category", "other")) ])

\* the errors list of the benchmark entry
BenchmarkErrors(item, has_errors) ==
    IF has_errors THEN <<Placeholder(item)>> ELSE <<>>

\* the benchmark entry of one labelled record
BenchmarkItem(item) ==
    JDict([ id |-> JStr(item.id),
            name |-> JStr(item.title),
            diff |-> JStr(item.diff),
            ground_truth |->
                JDict([ has_errors |-> JBool(item.ground_truth.has_errors),
                        errors |-> JList(BenchmarkErrors(item,
                                             item.ground_truth.has_errors)) ]) ])

ConvertAll(list) == [k \in 1..Len(list) |-> BenchmarkItem(list[k])]

\* convert_to_benchmark_format(input_file, output_file, max_items): the
\* content written to output_file and the count returned
convert_to_benchmark_format(input, limit) ==
    [ benchmark |-> JList(ConvertAll(Limit(input, limit))),
      count |-> Len(Limit(input, limit)) ]

MaxConv == 2
FILES_ONE == <<[filename |-> "config/app.yaml"], [filename |-> "README.md"]>>
\* labelled records as the labeler leaves them: id, title, diff and a ground
\* truth with has_errors and confidence always, the rest per record
LabelledBase(id, he, c) ==
    [ id |-> id, title |-> "Update " \o id, diff |-> "diff of " \o id,
      ground_truth |-> [has_errors |-> he, confidence |-> c] ]
WithLabels(r, category, severity) ==
    [r EXCEPT !.ground_truth = @ @@ [category |-> category, severity |-> severity]]
LabelledRecords ==
    { LabelledBase(id, he, Dec(85)) : id \in {"acme_1", "acme_2"}, he \in BOOLEAN }
    \cup { WithLabels(LabelledBase("acme_3", TRUE, c), "security", "critical")
             @@ [files |-> FILES_ONE] : c \in {Dec(62), Dec(100)} }
    \cup { WithLabels(LabelledBase("acme_4", TRUE, Dec(70)), "inconsistency", "high")
             @@ [files |-> <<>>],
           WithLabels(LabelledBase("acme_5", FALSE, Dec(30)), NoValue, NoValue) }
ConvertInputs == UNION {[1..n -> LabelledRecords] : n \in 0..MaxConv}
Limits == {<<>>} \cup {<<n>> : n \in 0..(MaxConv + 1)}

MaxBench == 2
\* items a benchmark file can hold
ITEM_OK ==
    JDict([ id |-> JStr("acme_1"), repo |-> JStr("acme"), pr_number |-> JInt(1),
            diff |-> JStr("diff of acme_1"),
            ground_truth |-> JDict([ has_errors |-> JBool(TRUE),
                                     confidence |-> JFloat(Dec(85)) ]) ])
Without(item, field) ==
    JDict([k \in DOMAIN item.val \ {field} |-> item.val[k]])
WithGroundTruth(gt) == JDict([ITEM_OK.val EXCEPT !.ground_truth = gt])
WithConfidence(c) ==
    WithGroundTruth(JDict([ITEM_OK.val.ground_truth.val EXCEPT !.confidence = c]))
\* an item with nothing but an empty ground truth: six violations
ITEM_BARE == JDict([ground_truth |-> JDict(<<>>)])
BenchItems ==
    {ITEM_OK, ITEM_BARE, JDict(<<>>)}
    \cup {Without(ITEM_OK, f) : f \in {"id", "repo", "pr_number", "diff", "ground_truth"}}
    \cup {WithGroundTruth(Without(ITEM_OK.val.ground_truth, f)) :
             f \in {"has_errors", "confidence"}}
    \cup {WithGroundTruth(g) :
             g \in {JDict(<<>>), JNull, JInt(1), JStr("n/a"),
                    JList(<<JStr("has_errors"), JStr("confidence")>>)}}
    \cup {WithConfidence(c) :
             c \in {JInt(0), JInt(1), JInt(2), JInt(-1), JFloat(Dec(150)),
                    JBool(TRUE), JStr("high"), JNull}}
    \cup {JInt(5), JNull, JStr("n/a"), JStr("ground_truth"),
          JList(<<JStr("id"), JStr("ground_truth")>>), JList(<<>>)}
BenchFiles ==
    {JInvalid, JNull, JDict(<<>>), JStr("n/a")}
    \cup {JList(l) : l \in UNION {[1..n -> BenchItems] : n \in 0..MaxBench}}

(***************************************************************************)
(* BenchmarkRunner (eval/run_evaluation.py).  A validator call either      *)
(* raises or returns a JSON value; a returned dict holds a prediction      *)
(* whose error entries are dicts of the metrics model.                     *)
(***************************************************************************)
\* a field value that is not a string (None), kept apart from every string
NotAString == <<NoValue>>
\* error entries a validator can return with a field that is not a string
E_NO_PATH == [E_CRITICAL EXCEPT !.file_path = NotAString]
E_NO_OPTION == [E_CRITICAL EXCEPT !.option_name = NotAString]

Raises(message) == [raises |-> TRUE, message |-> message, returns |-> JNull]
Returns(value) == [raises |-> FALSE, message |-> "", returns |-> value]

\* the prediction run_single_test makes of a call that raised
FailedPrediction(message) ==
    JDict([has_errors |-> FALSE, errors |-> <<>>, summary |-> "Error: " \o message])

RunSingleTestCatchNothing(outcome) ==
    [prediction |-> outcome.returns, success |-> TRUE, error |-> ""]
\* run_single_test(model_name, test_case), given what the validator call did
run_single_test(outcome) ==
    IF outcome.raises
    THEN [prediction |-> FailedPrediction(outcome.message), success |-> FALSE,
          error |-> outcome.message]
    ELSE [prediction |-> outcome.returns, success |-> TRUE, error |-> ""]

\* does the matching loop of _match_errors raise from predicted error i on:
\* a file_path that is not a string raises as soon as it is compared, an
\* option_name that is not a string when the paths compared are equal
RECURSIVE MatchRaises(_, _, _, _)
Unmatched(gt_errors, matched_gt) == {j \in 1..Len(gt_errors) : j \notin matched_gt}
SamePath(gt_errors, matched_gt, path) ==
    {j \in Unmatched(gt_errors, matched_gt) : KeyOf[gt_errors[j]][1] = path}
MatchedAfter(matched_gt, j) == IF j = 0 THEN matched_gt ELSE matched_gt \cup {j}
MatchRaises(gt_errors, pred_errors, i, matched_gt) ==
    IF i > Len(pred_errors) THEN FALSE
    ELSE IF pred_errors[i].file_path = NotAString
    THEN Unmatched(gt_errors, matched_gt) # {}
         \/ MatchRaises(gt_errors, pred_errors, i + 1, matched_gt)
    ELSE IF pred_errors[i].option_name = NotAString
    THEN SamePath(gt_errors, matched_gt, _normalize_path(pred_errors[i].file_path)) # {}
         \/ MatchRaises(gt_errors, pred_errors, i + 1, matched_gt)
    ELSE MatchRaises(gt_errors, pred_errors, i + 1,
             MatchedAfter(matched_gt, FirstMatch(gt_errors, pred_errors[i], matched_gt)))

\* the exception metrics.add_prediction(ground_truth, prediction) ends with,
\* "" when it returns
AddPredictionRaises(ground_truth, prediction) ==
    IF prediction.kind # "dict" THEN "AttributeError"
    ELSE IF MatchRaises(Get(ground_truth, "errors", <<>>),
                        Get(prediction.val, "errors", <<>>), 1, {})
    THEN "AttributeError"
    ELSE ""

UpdateMetricsOnSuccessOnly(metrics, test_case, result) ==
    IF result.success
    THEN add_prediction(metrics, test_case.ground_truth, result.prediction.val)
    ELSE metrics
\* lines 123-126 of evaluate_model, when add_prediction returns
UpdateMetrics(metrics, test_case, result) ==
    add_prediction(metrics, test_case.ground_truth, result.prediction.val)

\* the entry evaluate_model appends to detailed_results
DetailedResult(test_case, result) ==
    [ test_id |-> test_case.id, test_name |-> test_case.name,
      ground_truth |-> test_case.ground_truth,
      prediction |-> result.prediction, success |-> result.success ]

\* the state of evaluate_model(model_name) before its loop
StartEvaluation(model_name) ==
    [ model |-> model_name, metrics |-> reset, detailed_results |-> <<>>,
      successes |-> 0 ]

\* one turn of the loop of evaluate_model on a state c, add_prediction returning
EvaluateCase(c, test_case, result) ==
    [ model |-> c.model,
      metrics |-> UpdateMetrics(c.metrics, test_case, result),
      detailed_results |-> Append(c.detailed_results, DetailedResult(test_case, result)),
      successes |-> c.successes + (IF result.success THEN 1 ELSE 0) ]

MaxTests == 2
MODELS == {"diffagent", "single_shot_gpt4o", "single_shot_gpt4o_mini", "rule_based"}
TestCase(id, has_errors, errors) ==
    [ id |-> id, name |-> "case " \o id, diff |-> "diff of " \o id,
      ground_truth |-> [has_errors |-> has_errors, errors |-> errors] ]
TestCases ==
    { TestCase("test_001", FALSE, <<>>),
      TestCase("test_002", TRUE, <<E_CRITICAL>>) }
Benchmarks == UNION {[1..n -> TestCases] : n \in 0..MaxTests}
ModelLists == {<<"rule_based">>, <<"diffagent", "rule_based">>, <<"gpt5", "diffagent">>}
Prediction(has_errors, errors) == JDict([has_errors |-> has_errors, errors |-> errors])
\* what a validator call can do
ValidatorOutcomes ==
    { Raises("API timeout"),
      Returns(Prediction(FALSE, <<>>)),
      Returns(Prediction(TRUE, <<E_HIGH>>)),
      Returns(JNull),
      Returns(Prediction(TRUE, <<E_NO_OPTION>>)),
      Returns(Prediction(TRUE, <<E_HIGH, E_NO_PATH>>)) }

(***************************************************************************)
(* GitHubCollector (eval/dataset_builder/github_collector.py).  What the   *)
(* API does with a request is an answer: a transport error, or a status    *)
(* and a body.  A response is <<>> for None and <<body>> otherwise.        *)
(***************************************************************************)
PER_PAGE_MAX == 100
HTTP_OK == 200
HTTP_FORBIDDEN == 403
HTTP_SERVER_ERROR == 500

Answer(body) == [error |-> "", status |-> HTTP_OK, body |-> <<body>>]
Refused(status) == [error |-> "", status |-> status, body |-> <<>>]
TimedOut == [error |-> "Timeout", status |-> 0, body |-> <<>>]

\* _make_request: None on 403, on a status raise_for_status rejects and on a
\* requests exception; the body otherwise
_make_request(answer) ==
    IF answer.error # "" THEN <<>>
    ELSE IF answer.status = HTTP_FORBIDDEN THEN <<>>
    ELSE IF answer.status >= 400 THEN <<>>
    ELSE answer.body

\* rate limiting (403) or a timeout
Transient(answer) == answer.error = "Timeout" \/ answer.status = HTTP_FORBIDDEN

\* `if not response` for a search response: None, or an empty JSON object
NoResponse(response) == response = <<>>

\* prs[:max_results]
Slice(list, n) ==
    IF n >= 0 THEN SubSeq(list, 1, IF n < Len(list) THEN n ELSE Len(list))
    ELSE SubSeq(list, 1, IF Len(list) + n > 0 THEN Len(list) + n ELSE 0)

\* params['per_page']
per_page(max_results) == IF PER_PAGE_MAX < max_results THEN PER_PAGE_MAX ELSE max_results

Looping(list, next_page) == [prs |-> list, page |-> next_page, done |-> FALSE]
Returning(list, next_page) == [prs |-> list, page |-> next_page, done |-> TRUE]

\* the loop guard of search_config_prs
WhileGuard(s, max_results) ==
    IF Len(s.prs) < max_results THEN s ELSE Returning(s.prs, s.page)

SearchPageRetries(list, next_page, response, max_results) ==
    IF NoResponse(response) THEN Looping(list, next_page)
    ELSE IF Get(response[1], "items", <<>>) = <<>> THEN Returning(list, next_page)
    ELSE IF Get(response[1], "incomplete_results", FALSE)
    THEN Returning(list \o response[1].items, next_page)
    ELSE WhileGuard(Looping(list \o response[1].items, next_page + 1), max_results)

SearchPageIgnoresIncomplete(list, next_page, response, max_results) ==
    IF NoResponse(response) THEN Returning(list, next_page)
    ELSE IF Get(response[1], "items", <<>>) = <<>> THEN Returning(list, next_page)
    ELSE WhileGuard(Looping(list \o response[1].items, next_page + 1), max_results)

\* one turn of the loop of search_config_prs on the response to the request
\* for page next_page, and the guard evaluated after it
SearchPage(list, next_page, response, max_results) ==
    IF NoResponse(response) THEN Returning(list, next_page)
    ELSE IF Get(response[1], "items", <<>>) = <<>> THEN Returning(list, next_page)
    ELSE IF Get(response[1], "incomplete_results", FALSE)
    THEN Returning(list \o response[1].items, next_page)
    ELSE WhileGuard(Looping(list \o response[1].items, next_page + 1), max_results)

strategy_queries ==
    [ reverted |-> "revert config", fix |-> "fix config OR fix configuration",
      bug |-> "bug config OR config bug",
      security |-> "security config OR config vulnerability",
      hotfix |-> "hotfix config OR config hotfix", rollback |-> "rollback config",
      incorrect |-> "incorrect config OR wrong config" ]

\* is_config_related on the file names and the title of the model
ConfigFileNames == {"config/app.yaml", "Dockerfile"}
is_config_related(pr, files) ==
    \/ \E k \in 1..Len(files) : files[k] \in ConfigFileNames
    \/ pr.title_has_keyword

\* get_pr_files, get_pr_comments, get_pr_reviews: [] for no response
ListOrEmpty(response) == IF response = <<>> THEN <<>> ELSE response[1]

\* what _extract_pr_data returns and the requests it issued on the way
Extracted(requests, record) == [requests |-> requests, data |-> record]

ExtractRest(pr, strategy, a, files, diff) ==
    Extracted(<<"files", "diff", "comments", "reviews">>,
        <<[ id |-> pr.id, files |-> files, diff |-> diff,
            comments |-> ListOrEmpty(_make_request(a.comments)),
            reviews |-> ListOrEmpty(_make_request(a.reviews)),
            collection_strategy |-> strategy ]>>)

ExtractDiff(pr, strategy, a, files, diff) ==
    IF diff = <<>> \/ diff[1] = "" THEN Extracted(<<"files", "diff">>, <<>>)
    ELSE ExtractRest(pr, strategy, a, files, diff[1])

ExtractFiles(pr, strategy, a, files) ==
    IF files = <<>> THEN Extracted(<<"files">>, <<>>)
    ELSE IF ~is_config_related(pr, files) THEN Extracted(<<"files">>, <<>>)
    ELSE ExtractDiff(pr, strategy, a, files, _make_request(a.diff))

\* _extract_pr_data(pr, strategy), given the answers a to its requests
_extract_pr_data(pr, strategy, a) ==
    IF pr.pull_request_url = "" THEN Extracted(<<>>, <<>>)
    ELSE ExtractFiles(pr, strategy, a, ListOrEmpty(_make_request(a.files)))

MaxPerStrategy == 2
\* the k-th hit of a page of search results
Hit(strategy, p, k) ==
    [ id |-> <<strategy, p, k>>, pull_request_url |-> "https://api.github.com/repos/acme/app/pulls/1",
      title_has_keyword |-> k = 2 ]
SearchBodies(strategy, p, n) ==
    { [items |-> [k \in 1..m |-> Hit(strategy, p, k)], incomplete_results |-> b] :
        m \in 1..n, b \in BOOLEAN }
    \cup {[items |-> <<>>, incomplete_results |-> FALSE]}
SearchAnswers(strategy, p, n) ==
    {Refused(HTTP_FORBIDDEN), Refused(HTTP_SERVER_ERROR), TimedOut}
    \cup {Answer(body) : body \in SearchBodies(strategy, p, n)}
FILES_CONFIG == Answer(<<"config/app.yaml", "README.md">>)
FILES_OTHER == Answer(<<"README.md">>)
DIFF_TEXT == Answer("diff --git a/config/app.yaml b/config/app.yaml")
NO_COMMENTS == Answer(<<>>)
EnrichAnswers(files, diff, comments) ==
    [files |-> files, diff |-> diff, comments |-> comments, reviews |-> NO_COMMENTS]
\* the answers to the requests of one _extract_pr_data call
Enrichments ==
    { EnrichAnswers(Refused(HTTP_FORBIDDEN), DIFF_TEXT, NO_COMMENTS),
      EnrichAnswers(FILES_OTHER, DIFF_TEXT, NO_COMMENTS),
      EnrichAnswers(FILES_CONFIG, TimedOut, NO_COMMENTS),
      EnrichAnswers(FILES_CONFIG, DIFF_TEXT, NO_COMMENTS) }
StrategyLists == {<<"reverted", "fix">>, <<"typo", "bug">>}
Maxima == 0..MaxPerStrategy

(***************************************************************************)
(* AutoLabeler.label_dataset, ManualReviewer and build_dataset.  A record  *)
(* is the candidate the collector handed over with the fields the later    *)
(* steps read: id, files and diff (its length, as in the filter).  Of      *)
(* labeling_reasons a record keeps what manual review appends.             *)
(***************************************************************************)
\* labeled_data of label_pr: the copy of pr_data with the label added
labeled_data(pr) == label_pr(pr) @@ pr

\* the body of the loop of label_dataset for one labelled record
LabelOne(acc, rec, min_confidence) ==
    IF FLe(min_confidence, rec.ground_truth.confidence)
    THEN [acc EXCEPT
            !.labeled_data = Append(@, rec),
            !.stats.has_errors = @ + (IF rec.ground_truth.has_errors THEN 1 ELSE 0),
            !.stats.no_errors = @ + (IF rec.ground_truth.has_errors THEN 0 ELSE 1),
            !.stats.requires_review = @ + (IF rec.requires_manual_review THEN 1 ELSE 0),
            !.stats.high_confidence = @ + (IF rec.requires_manual_review THEN 0 ELSE 1)]
    ELSE acc

RECURSIVE LabelLoop(_, _, _, _)
LabelLoop(input, min_confidence, i, acc) ==
    IF i > Len(input) THEN acc
    ELSE LabelLoop(input, min_confidence, i + 1,
                   LabelOne(acc, labeled_data(input[i]), min_confidence))

NothingLabeled(input) ==
    [ labeled_data |-> <<>>,
      stats |-> [ total |-> Len(input), has_errors |-> 0, no_errors |-> 0,
                  requires_review |-> 0, high_confidence |-> 0 ] ]

label_datasetKeepsAll(input, min_confidence) ==
    LabelLoop(input, F_ZERO, 1, NothingLabeled(input))

\* label_dataset(input_file, output_file, min_confidence): the list written
\* to the output file and the statistics returned
label_dataset(input, min_confidence) ==
    LabelLoop(input, min_confidence, 1, NothingLabeled(input))

\* _edit_item: the answer to "Has errors?", y, n or Enter
EditHasErrors(gt, response) ==
    IF response = "y" THEN [gt EXCEPT !.has_errors = TRUE]
    ELSE IF response = "n" THEN [gt EXCEPT !.has_errors = FALSE]
    ELSE gt
\* gt[key] = response unless the answer is empty
EditField(gt, key, response) == IF response # "" THEN (key :> response) @@ gt ELSE gt
\* category and severity are asked for only when has_errors holds by then
EditLabels(gt, answers) ==
    IF gt.has_errors
    THEN EditField(EditField(gt, "category", answers.category),
                   "severity", answers.severity)
    ELSE gt
\* gt['confidence'] = 1.0 and the provenance reason
EditProvenance(gt) ==
    ("confidence" :> F_ONE)
    @@ ("labeling_reasons" :>
           Append(Get(gt, "labeling_reasons", <<>>), "Manually reviewed and corrected"))
    @@ gt

\* ManualReviewer._edit_item(item) with the three answers typed
_edit_item(item, answers) ==
    ("manually_reviewed" :> TRUE)
    @@ ("ground_truth" :>
           EditProvenance(EditLabels(EditHasErrors(item.ground_truth,
                                                   answers.has_errors), answers)))
    @@ item

\* ManualReviewer.review_item(item) with the choice typed: <<the reviewed
\* item>>, <<>> for the None of q.  Any other input asks again.
review_item(item, choice) ==
    IF choice.key = "a" THEN <<("manually_reviewed" :> TRUE) @@ item>>
    ELSE IF choice.key = "e" THEN <<_edit_item(item, choice)>>
    ELSE IF choice.key = "s" THEN <<("needs_review" :> TRUE) @@ item>>
    ELSE IF choice.key = "d" THEN <<("excluded" :> TRUE) @@ item>>
    ELSE <<>>

\* review_all: the (index, item) pairs of a review_filter, by index
Wanted(item, review_filter) ==
    IF review_filter = "needs_review" THEN Get(item, "requires_manual_review", FALSE)
    ELSE IF review_filter = "errors_only" THEN HasErrors(item)
    ELSE TRUE
RECURSIVE ItemsFrom(_, _, _)
ItemsFrom(items, review_filter, i) ==
    IF i > Len(items) THEN <<>>
    ELSE (IF Wanted(items[i], review_filter) THEN <<i>> ELSE <<>>)
         \o ItemsFrom(items, review_filter, i + 1)
\* items_to_review[start_index:]
items_to_review(items, review_filter, start_index) ==
    SubSeq(ItemsFrom(items, review_filter, 1), start_index + 1,
           Len(ItemsFrom(items, review_filter, 1)))
SAVE_EVERY == 10

\* the candidates of the collected file, and the files made of them
MaxFile == 2
FILE_CONFIG == <<[filename |-> <<"a", ".", "y", "m", "l">>]>>
Collected(id, title, body, reviews, comments, merged, strategy) ==
    [ id |-> id, files |-> FILE_CONFIG, diff |-> MIN_DIFF_LEN,
      title |-> title, body |-> body, labels |-> {}, reviews |-> reviews,
      comments |-> comments, merged |-> merged, collection_strategy |-> strategy ]
\* 0.85, a security issue
PR_REVERT == Collected("acme_1", {"revert"}, {"secret"}, {}, {}, FALSE, NoValue)
\* 0.7
PR_HOTFIX == Collected("acme_2", {"hotfix"}, {}, {}, {}, FALSE, NoValue)
\* 0.4
PR_UPDATE == Collected("acme_3", {"update"}, {}, {}, {}, TRUE, NoValue)
\* 0.6, the decision cut itself
PR_AT_CUT == Collected("acme_4", {"update"}, {}, {}, {}, FALSE, "reverted")
\* 0.5 + 0.15 + 0.15 - 0.20, the double next above 0.6
PR_ABOVE_CUT ==
    Collected("acme_5", {"update"}, {"bug"}, {"CHANGES_REQUESTED", "APPROVED"},
              {{"wrong"}}, TRUE, NoValue)
Distinct(list) == \A i, j \in 1..Len(list) : list[i] = list[j] => i = j
FilesOf(records) ==
    {list \in UNION {[1..n -> records] : n \in 0..MaxFile} : Distinct(list)}
CollectedFiles == FilesOf({PR_REVERT, PR_HOTFIX, PR_UPDATE, PR_AT_CUT, PR_ABOVE_CUT})
MinConfidences ==
    {Dec(0), Dec(60), label_pr(PR_ABOVE_CUT).ground_truth.confidence, Dec(70)}
TargetSizes == {<<1>>, <<MaxFile>>}
LabeledFiles ==
    {label_dataset(list, F_ZERO).labeled_data :
        list \in FilesOf({PR_REVERT, PR_HOTFIX, PR_UPDATE})}
ReviewFilters == {"needs_review", "errors_only", "all"}
Resumes == {<<"needs_review", 0>>, <<"errors_only", 0>>, <<"all", 0>>, <<"all", 1>>}
ReviewChoices ==
    { [key |-> "a"], [key |-> "s"], [key |-> "d"], [key |-> "q"],
      [key |-> "e", has_errors |-> "n", category |-> "", severity |-> ""],
      [key |-> "e", has_errors |-> "y", category |-> "", severity |-> ""],
      [key |-> "e", has_errors |-> "", category |-> "security", severity |-> "info"] }
ReviewedFilters == {<<>>, [exclude_needs_review |-> TRUE]}

Engine ==
    [ true_positives |-> true_positives, false_positives |-> false_positives,
      true_negatives |-> true_negatives, false_negatives |-> false_negatives,
      severity_stats |-> severity_stats, category_stats |-> category_stats ]

engineVars == <<true_positives, false_positives, true_negatives, false_negatives,
                severity_stats, category_stats>>
metricsVars == <<engineVars, pending, fed, before, last_op>>
labelVars == <<pr_data, labeled>>
balanceVars == <<data, target_ratio, rng_state, output_file, runs>>
filterVars == <<filter_input, filters, filter_output, filter_stats>>
convertVars == <<convert_input, max_items, converted, benchmark_file, validation>>
runnerVars == <<benchmark_data, model_names, next_model, current, results, calls,
                run_raised>>
collectVars == <<strategies, max_per_strategy, position, stage, prs, page, hits,
                 handled, enrich_log, page_requests, all_data, collected>>
reviewVars == <<review_data, to_review, review_idx, changes_made, reviewed_file,
                review_stage>>
vars == <<reviewVars, collectVars, runnerVars, labelVars, metricsVars, balanceVars, filterVars, convertVars>>

SetEngine(e) ==
    /\ true_positives' = e.true_positives
    /\ false_positives' = e.false_positives
    /\ true_negatives' = e.true_negatives
    /\ false_negatives' = e.false_negatives
    /\ severity_stats' = e.severity_stats
    /\ category_stats' = e.category_stats

\* an engine that was fed the pairs of history since its last reset
EngineIs(e) ==
    /\ true_positives = e.true_positives
    /\ false_positives = e.false_positives
    /\ true_negatives = e.true_negatives
    /\ false_negatives = e.false_negatives
    /\ severity_stats = e.severity_stats
    /\ category_stats = e.category_stats

EngineStarts(e, history) ==
    /\ EngineIs(e)
    /\ fed = history
    /\ before = e
    /\ last_op = "none"

EngineAfter(history) == EngineStarts(Replay(reset, history), history)

MetricsIdle == EngineStarts(reset, <<>>) /\ pending = <<>>
LabelIdle == pr_data = NoValue /\ labeled = <<>>
BalanceIdle ==
    /\ data = <<>>
    /\ target_ratio = Dec(50)
    /\ rng_state = 0
    /\ output_file = <<>>
    /\ runs = <<>>
ConvertIdle ==
    /\ convert_input = <<>>
    /\ max_items = <<>>
    /\ converted = <<>>
    /\ benchmark_file = <<>>
    /\ validation = <<>>
RunnerIdle ==
    /\ benchmark_data = <<>>
    /\ model_names = <<>>
    /\ next_model = 1
    /\ current = <<>>
    /\ results = <<>>
    /\ calls = <<>>
    /\ run_raised = ""
CollectIdle ==
    /\ strategies = <<>>
    /\ max_per_strategy = 0
    /\ position = 0
    /\ stage = "loop"
    /\ prs = <<>>
    /\ page = 1
    /\ hits = <<>>
    /\ handled = 0
    /\ enrich_log = <<>>
    /\ page_requests = <<>>
    /\ all_data = <<>>
    /\ collected = <<>>
ReviewIdle ==
    /\ review_data = <<>>
    /\ to_review = <<>>
    /\ review_idx = 0
    /\ changes_made = 0
    /\ reviewed_file = <<>>
    /\ review_stage = "idle"
FilterIdle ==
    /\ filter_input = <<>>
    /\ filters = <<>>
    /\ filter_output = <<>>
    /\ filter_stats = <<>>

\* label_pr applied to the candidate record
LabelPr ==
    /\ labeled = <<>>
    /\ labeled' = <<label_pr(pr_data)>>
    /\ UNCHANGED <<pr_data, metricsVars, balanceVars, filterVars,
                   convertVars, runnerVars, collectVars, reviewVars>>

InitLabel ==
    /\ ReviewIdle
    /\ CollectIdle
    /\ RunnerIdle
    /\ ConvertIdle
    /\ pr_data \in Candidates /\ labeled = <<>> /\ MetricsIdle /\ BalanceIdle
    /\ FilterIdle
NextLabel == LabelPr
SpecLabel == InitLabel /\ [][NextLabel]_vars

\* metrics.add_prediction(ground_truth, prediction) on the next pending pair
AddPrediction ==
    /\ pending # <<>>
    /\ SetEngine(add_prediction(Engine, pending[1].ground_truth, pending[1].prediction))
    /\ before' = Engine
    /\ fed' = Append(fed, pending[1])
    /\ pending' = Tail(pending)
    /\ last_op' = "add"
    /\ UNCHANGED <<labelVars, balanceVars, filterVars,
                   convertVars, runnerVars, collectVars, reviewVars>>

\* metrics.reset()
Reset ==
    /\ fed # <<>>
    /\ SetEngine(reset)
    /\ before' = Engine
    /\ fed' = <<>>
    /\ last_op' = "reset"
    /\ UNCHANGED <<pending, labelVars, balanceVars, filterVars,
                   convertVars, runnerVars, collectVars, reviewVars>>

\* one add_prediction with any argument pair, on a fresh engine or on one that
\* was fed a test case before
InitMatch ==
    /\ ReviewIdle
    /\ CollectIdle
    /\ RunnerIdle
    /\ ConvertIdle
    /\ LabelIdle
    /\ BalanceIdle
    /\ FilterIdle
    /\ \E h \in PriorHistories : EngineAfter(h)
    /\ pending \in {<<a>> : a \in Pairs(ErrorLists)}
NextMatch == AddPrediction \/ Reset
SpecMatch == InitMatch /\ [][NextMatch]_vars

\* a benchmark of at most MaxFed test cases fed in order, with resets in between
InitEngine ==
    /\ ReviewIdle
    /\ CollectIdle
    /\ RunnerIdle
    /\ ConvertIdle
    /\ LabelIdle
    /\ BalanceIdle
    /\ FilterIdle
    /\ EngineStarts(reset, <<>>)
    /\ pending \in UNION {[1..n -> Cases] : n \in 0..MaxFed}
NextEngine == AddPrediction \/ Reset
SpecEngine == InitEngine /\ [][NextEngine]_vars

\* a call as observed: whether it found the generator in the state the seed
\* gives anyway, what it wrote and what it returned or raised
Outcome(b, s) ==
    [at_seed |-> s = random_seed(SEED), wrote |-> b.wrote, result |-> b.result]

\* balance_dataset on the input under study
Balance ==
    /\ Len(runs) < 2
    /\ \E b \in {balance_dataset(data, target_ratio, rng_state)} :
          /\ runs' = Append(runs, Outcome(b, rng_state))
          /\ rng_state' = b.state
          /\ output_file' = IF b.wrote = <<>> THEN output_file ELSE b.wrote
    /\ UNCHANGED <<data, target_ratio, labelVars, metricsVars, filterVars,
                   convertVars, runnerVars, collectVars, reviewVars>>

\* balance_dataset on another input, to the same output file
BalanceOther ==
    /\ \E b \in {balance_dataset(OTHER_DATA, Dec(50), rng_state)} :
          /\ output_file' = b.wrote
          /\ rng_state' = b.state
    /\ UNCHANGED <<data, target_ratio, runs, labelVars, metricsVars, filterVars,
                   convertVars, runnerVars, collectVars, reviewVars>>

\* any other use of the module-level generator in the process
RandomUse ==
    /\ rng_state' = RngStep(rng_state)
    /\ UNCHANGED <<data, target_ratio, output_file, runs, labelVars, metricsVars,
                   filterVars,
                   convertVars, runnerVars, collectVars, reviewVars>>

InitBalance ==
    /\ ReviewIdle
    /\ CollectIdle
    /\ RunnerIdle
    /\ ConvertIdle
    /\ LabelIdle
    /\ MetricsIdle
    /\ FilterIdle
    /\ data \in Datasets
    /\ target_ratio \in Ratios
    /\ rng_state = 0
    /\ output_file = <<>>
    /\ runs = <<>>
NextBalance == Balance \/ BalanceOther \/ RandomUse
SpecBalance == InitBalance /\ [][NextBalance]_vars

\* filter_dataset on the labeled file
FilterDataset ==
    /\ filter_stats = <<>>
    /\ \E r \in {filter_dataset(filter_input, filters)} :
          /\ filter_output' = <<r.filtered_data>>
          /\ filter_stats' = <<r.stats>>
    /\ UNCHANGED <<filter_input, filters, labelVars, metricsVars, balanceVars,
                   convertVars, runnerVars, collectVars, reviewVars>>

InitFilter ==
    /\ ReviewIdle
    /\ CollectIdle
    /\ RunnerIdle
    /\ ConvertIdle
    /\ LabelIdle
    /\ MetricsIdle
    /\ BalanceIdle
    /\ filter_input \in UNION {[1..n -> LabeledPrs] : n \in 0..MaxItems}
    /\ filters \in FilterSettings
    /\ filter_output = <<>>
    /\ filter_stats = <<>>
NextFilter == FilterDataset
SpecFilter == InitFilter /\ [][NextFilter]_vars

\* convert_to_benchmark_format on the balanced file (build_dataset, step 5)
Convert ==
    /\ converted = <<>>
    /\ \E r \in {convert_to_benchmark_format(convert_input, max_items)} :
          /\ benchmark_file' = <<r.benchmark>>
          /\ converted' = <<r.count>>
    /\ UNCHANGED <<convert_input, max_items, validation, labelVars, metricsVars,
                   balanceVars, filterVars, runnerVars, collectVars,
                   reviewVars>>

\* validate_dataset on the benchmark file (build_dataset, step 6)
Validate ==
    /\ benchmark_file # <<>>
    /\ validation = <<>>
    /\ validation' = <<validate_dataset(benchmark_file[1])>>
    /\ UNCHANGED <<convert_input, max_items, converted, benchmark_file, labelVars,
                   metricsVars, balanceVars, filterVars, runnerVars,
                   collectVars, reviewVars>>

InitValidate ==
    /\ ReviewIdle
    /\ CollectIdle
    /\ RunnerIdle
    /\ LabelIdle
    /\ MetricsIdle
    /\ BalanceIdle
    /\ FilterIdle
    /\ convert_input = <<>>
    /\ max_items = <<>>
    /\ converted = <<>>
    /\ benchmark_file \in {<<c>> : c \in BenchFiles}
    /\ validation = <<>>
NextValidate == Validate
SpecValidate == InitValidate /\ [][NextValidate]_vars

InitConvert ==
    /\ ReviewIdle
    /\ CollectIdle
    /\ RunnerIdle
    /\ LabelIdle
    /\ MetricsIdle
    /\ BalanceIdle
    /\ FilterIdle
    /\ convert_input \in ConvertInputs
    /\ max_items \in Limits
    /\ converted = <<>>
    /\ benchmark_file = <<>>
    /\ validation = <<>>
NextConvert == Convert \/ Validate
SpecConvert == InitConvert /\ [][NextConvert]_vars

\* run_all takes the next name of model_names: an unknown name is skipped
\* with a warning, a known one starts evaluate_model
NextModel ==
    /\ run_raised = ""
    /\ current = <<>>
    /\ next_model <= Len(model_names)
    /\ next_model' = next_model + 1
    /\ current' = IF model_names[next_model] \in MODELS
                  THEN <<StartEvaluation(model_names[next_model])>>
                  ELSE <<>>
    /\ UNCHANGED <<benchmark_data, model_names, results, calls, run_raised,
                   labelVars, metricsVars, balanceVars, filterVars, convertVars,
                   collectVars, reviewVars>>

\* the exception escaping evaluate_model leaves run_all; no result is stored
Abort(exception) ==
    /\ run_raised' = exception
    /\ current' = <<>>

\* one turn of the loop of evaluate_model: the validator is called on the
\* next test case and the prediction is handed to the metrics
RunTest ==
    /\ run_raised = ""
    /\ current # <<>>
    /\ Len(current[1].detailed_results) < Len(benchmark_data)
    /\ \E outcome \in ValidatorOutcomes :
         \E t \in {benchmark_data[Len(current[1].detailed_results) + 1]} :
           \E r \in {run_single_test(outcome)} :
             /\ calls' = Append(calls, [model |-> current[1].model, test_id |-> t.id,
                                        at |-> Len(current[1].detailed_results) + 1,
                                        outcome |-> outcome])
             /\ IF AddPredictionRaises(t.ground_truth, r.prediction) # ""
                THEN Abort(AddPredictionRaises(t.ground_truth, r.prediction))
                ELSE /\ current' = <<EvaluateCase(current[1], t, r)>>
                     /\ run_raised' = ""
    /\ UNCHANGED <<benchmark_data, model_names, next_model, results,
                   labelVars, metricsVars, balanceVars, filterVars, convertVars,
                   collectVars, reviewVars>>

\* the end of evaluate_model: the summary divides by len(benchmark_data)
FinishModel ==
    /\ run_raised = ""
    /\ current # <<>>
    /\ Len(current[1].detailed_results) = Len(benchmark_data)
    /\ IF Len(benchmark_data) = 0
       THEN Abort("ZeroDivisionError") /\ UNCHANGED results
       ELSE /\ results' = Append(results, current[1])
            /\ current' = <<>>
            /\ run_raised' = ""
    /\ UNCHANGED <<benchmark_data, model_names, next_model, calls,
                   labelVars, metricsVars, balanceVars, filterVars, convertVars,
                   collectVars, reviewVars>>

InitRunner ==
    /\ ReviewIdle
    /\ CollectIdle
    /\ LabelIdle
    /\ MetricsIdle
    /\ BalanceIdle
    /\ FilterIdle
    /\ ConvertIdle
    /\ benchmark_data \in Benchmarks
    /\ model_names \in ModelLists
    /\ next_model = 1
    /\ current = <<>>
    /\ results = <<>>
    /\ calls = <<>>
    /\ run_raised = ""
NextRunner == NextModel \/ RunTest \/ FinishModel
SpecRunner == InitRunner /\ [][NextRunner]_vars

\* the strategies loop is between two strategies, or before the first
BetweenStrategies ==
    \/ stage = "loop"
    \/ stage = "enrich" /\ handled = Len(hits)

\* collect_dataset takes the next strategy: an unknown one is skipped with a
\* warning, a known one starts search_config_prs
StartStrategy ==
    /\ BetweenStrategies
    /\ position < Len(strategies)
    /\ position' = position + 1
    /\ handled' = 0
    /\ enrich_log' = <<>>
    /\ IF strategies[position + 1] \notin DOMAIN strategy_queries
       THEN stage' = "loop" /\ hits' = <<>> /\ UNCHANGED <<prs, page,
                   reviewVars>>
       ELSE \E s \in {WhileGuard(Looping(<<>>, 1), max_per_strategy)} :
              /\ prs' = s.prs
              /\ page' = s.page
              /\ stage' = IF s.done THEN "enrich" ELSE "search"
              /\ hits' = Slice(s.prs, max_per_strategy)
    /\ UNCHANGED <<strategies, max_per_strategy, page_requests, all_data, collected,
                   runnerVars, labelVars, metricsVars, balanceVars, filterVars,
                   convertVars, reviewVars>>

\* search_config_prs requests the next page and handles the response
RequestPage ==
    /\ stage = "search"
    /\ \E answer \in SearchAnswers(position, page, per_page(max_per_strategy)) :
         \E s \in {SearchPage(prs, page, _make_request(answer), max_per_strategy)} :
           /\ page_requests' = Append(page_requests,
                                   [strategy |-> position, page |-> page,
                                    answer |-> answer])
           /\ prs' = s.prs
           /\ page' = s.page
           /\ stage' = IF s.done THEN "enrich" ELSE "search"
           /\ hits' = IF s.done THEN Slice(s.prs, max_per_strategy) ELSE <<>>
    /\ UNCHANGED <<strategies, max_per_strategy, position, handled, enrich_log,
                   all_data, collected, runnerVars, labelVars, metricsVars,
                   balanceVars, filterVars, convertVars, reviewVars>>

\* one turn of the loop over the hits: _extract_pr_data on the next hit
ExtractPrData ==
    /\ stage = "enrich"
    /\ handled < Len(hits)
    /\ \E a \in Enrichments :
         \E r \in {_extract_pr_data(hits[handled + 1], strategies[position], a)} :
           /\ all_data' = all_data \o r.data
           /\ enrich_log' = Append(enrich_log,
                                [requests |-> r.requests,
                                 transient |-> \E k \in 1..Len(r.requests) :
                                                  Transient(a[r.requests[k]])])
    /\ handled' = handled + 1
    /\ UNCHANGED <<strategies, max_per_strategy, position, stage, prs, page, hits,
                   page_requests, collected, runnerVars, labelVars, metricsVars,
                   balanceVars, filterVars, convertVars, reviewVars>>

\* after the last strategy collect_dataset saves all_data and returns it
SaveCollected ==
    /\ BetweenStrategies
    /\ position = Len(strategies)
    /\ collected' = <<all_data>>
    /\ stage' = "returned"
    /\ UNCHANGED <<strategies, max_per_strategy, position, prs, page, hits, handled,
                   enrich_log, page_requests, all_data, runnerVars, labelVars,
                   metricsVars, balanceVars, filterVars, convertVars,
                   reviewVars>>

InitCollect ==
    /\ ReviewIdle
    /\ LabelIdle
    /\ MetricsIdle
    /\ BalanceIdle
    /\ FilterIdle
    /\ ConvertIdle
    /\ RunnerIdle
    /\ strategies \in StrategyLists
    /\ max_per_strategy \in Maxima
    /\ position = 0
    /\ stage = "loop"
    /\ prs = <<>>
    /\ page = 1
    /\ hits = <<>>
    /\ handled = 0
    /\ enrich_log = <<>>
    /\ page_requests = <<>>
    /\ all_data = <<>>
    /\ collected = <<>>
NextCollect == StartStrategy \/ RequestPage \/ ExtractPrData \/ SaveCollected
SpecCollect == InitCollect /\ [][NextCollect]_vars
\* the collector is one sequential program and every request ends within
\* its timeout: a step that can be taken is taken
SpecCollectFair == SpecCollect /\ WF_vars(NextCollect)

\* filter_dataset, balance_dataset and convert_to_benchmark_format on the
\* content of a file a previous step wrote
RunFilter(input, f) ==
    /\ filter_stats = <<>>
    /\ filter_input' = input
    /\ filters' = f
    /\ \E r \in {filter_dataset(input, f)} :
          /\ filter_output' = <<r.filtered_data>>
          /\ filter_stats' = <<r.stats>>
RunBalance(input, ratio) ==
    /\ runs = <<>>
    /\ data' = input
    /\ target_ratio' = ratio
    /\ \E b \in {balance_dataset(input, ratio, rng_state)} :
          /\ runs' = <<Outcome(b, rng_state)>>
          /\ rng_state' = b.state
          /\ output_file' = b.wrote
RunConvert(input, limit) ==
    /\ converted = <<>>
    /\ convert_input' = input
    /\ max_items' = limit
    /\ \E r \in {convert_to_benchmark_format(input, limit)} :
          /\ benchmark_file' = <<r.benchmark>>
          /\ converted' = <<r.count>>
          /\ validation' = validation
\* the previous call of balance_dataset returned
Balanced == runs # <<>> /\ "raised" \notin DOMAIN runs[1].result

\* ManualReviewer._save_progress(output_file)
_save_progress(items) == reviewed_file' = <<items>>

\* review_all up to the first question: load_data, the selection of the
\* items to review, and the final save when there is none
StartReview ==
    /\ review_stage = "idle"
    /\ labeled # <<>>
    /\ review_data' = labeled[1]
    /\ \E r \in Resumes : to_review' = items_to_review(labeled[1], r[1], r[2])
    /\ review_idx' = 0
    /\ changes_made' = 0
    /\ IF to_review' = <<>>
       THEN _save_progress(labeled[1]) /\ review_stage' = "saved"
       ELSE reviewed_file' = reviewed_file /\ review_stage' = "reviewing"
    /\ UNCHANGED <<labelVars, metricsVars, balanceVars, filterVars, convertVars,
                   runnerVars, collectVars>>

\* one turn of the loop of review_all once the reviewer answered: q leaves
\* the loop; otherwise the item is replaced, the progress saved every tenth
\* turn, and the final save follows the last item
Reviewed(reviewed_item) ==
    IF reviewed_item = <<>>
    THEN /\ _save_progress(review_data)
         /\ review_stage' = "saved"
         /\ UNCHANGED <<review_data, to_review, review_idx>>
    ELSE /\ review_data' = [review_data EXCEPT ![to_review[1]] = reviewed_item[1]]
         /\ to_review' = Tail(to_review)
         /\ review_idx' = review_idx + 1
         /\ IF Tail(to_review) = <<>>
            THEN _save_progress(review_data') /\ review_stage' = "saved"
            ELSE /\ review_stage' = review_stage
                 /\ IF review_idx > 0 /\ review_idx % SAVE_EVERY = 0
                    THEN _save_progress(review_data')
                    ELSE reviewed_file' = reviewed_file
ReviewItem ==
    /\ review_stage = "reviewing"
    /\ \E choice \in ReviewChoices :
          /\ Reviewed(review_item(review_data[to_review[1]], choice))
          /\ changes_made' = changes_made + (IF choice.key = "e" THEN 1 ELSE 0)
    /\ UNCHANGED <<labelVars, metricsVars, balanceVars, filterVars, convertVars,
                   runnerVars, collectVars>>

\* filter, balance and convert runs over the reviewed file
FilterReviewed ==
    /\ review_stage = "saved"
    /\ \E f \in ReviewedFilters : RunFilter(reviewed_file[1], f)
    /\ UNCHANGED <<labelVars, metricsVars, balanceVars, convertVars, runnerVars,
                   collectVars, reviewVars>>
BalanceReviewed ==
    /\ filter_output # <<>>
    /\ RunBalance(filter_output[1], Dec(50))
    /\ UNCHANGED <<labelVars, metricsVars, filterVars, convertVars, runnerVars,
                   collectVars, reviewVars>>
ConvertReviewed ==
    /\ Balanced
    /\ RunConvert(output_file[1], <<>>)
    /\ UNCHANGED <<labelVars, metricsVars, filterVars, balanceVars, runnerVars,
                   collectVars, reviewVars>>

InitReview ==
    /\ CollectIdle
    /\ RunnerIdle
    /\ ConvertIdle
    /\ MetricsIdle
    /\ BalanceIdle
    /\ FilterIdle
    /\ ReviewIdle
    /\ pr_data = NoValue
    /\ labeled \in {<<list>> : list \in LabeledFiles}
NextReview ==
    StartReview \/ ReviewItem \/ FilterReviewed \/ BalanceReviewed \/ ConvertReviewed
SpecReview == InitReview /\ [][NextReview]_vars

\* build_dataset, steps 2 to 6, on the collected file: each step reads the
\* file the previous one wrote; an exception ends the build
LabelDataset ==
    /\ collected # <<>>
    /\ labeled = <<>>
    /\ labeled' = <<label_dataset(collected[1], filters.min_confidence).labeled_data>>
    /\ UNCHANGED <<pr_data, metricsVars, balanceVars, filterVars, convertVars,
                   runnerVars, collectVars, reviewVars>>
FilterLabeled ==
    /\ labeled # <<>>
    /\ RunFilter(labeled[1], filters)
    /\ UNCHANGED <<labelVars, metricsVars, balanceVars, convertVars, runnerVars,
                   collectVars, reviewVars>>
BalanceFiltered ==
    /\ filter_output # <<>>
    /\ RunBalance(filter_output[1], target_ratio)
    /\ UNCHANGED <<labelVars, metricsVars, filterVars, convertVars, runnerVars,
                   collectVars, reviewVars>>
ConvertBalanced ==
    /\ Balanced
    /\ RunConvert(output_file[1], max_items)
    /\ UNCHANGED <<labelVars, metricsVars, filterVars, balanceVars, runnerVars,
                   collectVars, reviewVars>>

InitBuild ==
    /\ RunnerIdle
    /\ MetricsIdle
    /\ LabelIdle
    /\ ReviewIdle
    /\ strategies = <<>> /\ max_per_strategy = 0 /\ position = 0
    /\ stage = "returned" /\ prs = <<>> /\ page = 1 /\ hits = <<>> /\ handled = 0
    /\ enrich_log = <<>> /\ page_requests = <<>> /\ all_data = <<>>
    /\ collected \in {<<list>> : list \in CollectedFiles}
    /\ filter_input = <<>> /\ filter_output = <<>> /\ filter_stats = <<>>
    /\ filters \in {[min_confidence |-> c] : c \in MinConfidences}
    /\ data = <<>> /\ rng_state = 0 /\ output_file = <<>> /\ runs = <<>>
    /\ target_ratio \in Ratios
    /\ convert_input = <<>> /\ converted = <<>> /\ benchmark_file = <<>>
    /\ validation = <<>>
    /\ max_items \in TargetSizes
NextBuild ==
    LabelDataset \/ FilterLabeled \/ BalanceFiltered \/ ConvertBalanced \/ Validate
SpecBuild == InitBuild /\ [][NextBuild]_vars

(***************************************************************************)
(* Properties of the AutoLabeler                                           *)
(***************************************************************************)
Labelled == labeled # <<>>
GT == labeled[1].ground_truth

\* the weights of the triggered rules added up in exact decimal arithmetic,
\* in hundredths, clamped to [0, 100]
TriggeredCents(s) ==
    LET sum == 50
          + (IF s.has_revert_keyword THEN 35 ELSE 0)
          + (IF s.has_bug_label \/ s.has_hotfix_label THEN 25 ELSE 0)
          + (IF s.has_changes_requested THEN 15 ELSE 0)
          + (IF s.has_fix_keyword THEN 20 ELSE 0)
          + (IF s.has_negative_comments THEN 15 ELSE 0)
          + (IF s.collection_strategy \in {"reverted", "fix", "bug", "hotfix", "rollback"}
             THEN 10 ELSE 0)
          - (IF s.has_approved /\ s.merged THEN 20 ELSE 0)
          - (IF ~s.has_error_keyword /\ s.merged THEN 10 ELSE 0)
    IN  IF sum > 100 THEN 100 ELSE IF sum < 0 THEN 0 ELSE sum

\* C4: label_pr sets has_errors exactly when the confidence is strictly above
\* 0.6, and a record whose triggered rules sum to exactly 0.6 gets
\* has_errors = false.
C4_HasErrorsIffAbove06 ==
    Labelled =>
        /\ GT.has_errors <=> FLt(DECISION_THRESHOLD, GT.confidence)
        /\ TriggeredCents(GT.signals) = 60 => ~GT.has_errors

\* C5: requires_manual_review is true exactly when the confidence is strictly
\* below 0.8, whatever has_errors is; exactly 0.8 gives false; a confidence in
\* (0.6, 0.8) gives has_errors and requires_manual_review both true.
C5_ReviewIffBelow08 ==
    Labelled =>
        /\ labeled[1].requires_manual_review <=> FLt(GT.confidence, REVIEW_THRESHOLD)
        /\ GT.confidence = REVIEW_THRESHOLD => ~labeled[1].requires_manual_review
        /\ (FLt(DECISION_THRESHOLD, GT.confidence) /\ FLt(GT.confidence, REVIEW_THRESHOLD))
               => (GT.has_errors /\ labeled[1].requires_manual_review)

\* a labelled record whose confidence is exactly 0.8: no review required
C5_Witness ==
    /\ Labelled
    /\ GT.confidence = REVIEW_THRESHOLD
    /\ GT.has_errors
    /\ ~labeled[1].requires_manual_review

\* C6: the confidence attached to the record lies in [0, 1] for every
\* combination of triggered rules.
C6_ConfidenceClamped ==
    Labelled => (FLe(F_ZERO, GT.confidence) /\ FLe(GT.confidence, F_ONE))

\* a labelled record whose rules sum to more than 1 and whose confidence is 1
C6_Witness ==
    /\ Labelled
    /\ FLt(F_ONE, RuleSum(GT.signals))
    /\ GT.confidence = F_ONE

(***************************************************************************)
(* Properties of EvaluationMetrics                                         *)
(***************************************************************************)
Added == last_op = "add"
LastGT == fed[Len(fed)].ground_truth
LastPred == fed[Len(fed)].prediction

SevOf(e) == Get(e, "severity", "warning")
CatOf(e) == Get(e, "category", "other")
StatOf(table, key, k) == IF key \in DOMAIN table THEN table[key][k] ELSE 0
SevGain(s, k) == StatOf(severity_stats, s, k) - StatOf(before.severity_stats, s, k)
CatGain(c, k) == StatOf(category_stats, c, k) - StatOf(before.category_stats, c, k)
CountSev(errs, s) == Cardinality({j \in 1..Len(errs) : SevOf(errs[j]) = s})
CountCat(errs, c) == Cardinality({j \in 1..Len(errs) : CatOf(errs[j]) = c})
TrackedSeverities == {"critical", "warning", "info"}
KnownCategories == {CatOf(e) : e \in Errors} \cup DOMAIN category_stats

\* two file paths that are the same file once normalized, two option names
\* that differ in letter case only
SameFile(p, q) == p = q \/ {p, q} = {PATH_UNIX, PATH_WIN}
SameOption(a, b) == a = b \/ {a, b} = {OPT_UPPER, OPT_LOWER}
SameErrorLists(a, b) ==
    /\ Len(a) = Len(b)
    /\ \A i \in 1..Len(a) :
         /\ SameFile(a[i].file_path, b[i].file_path)
         /\ SameOption(a[i].option_name, b[i].option_name)

Orderings(n) == {f \in [1..n -> 1..n] : \A i, j \in 1..n : f[i] = f[j] => i = j}
Permuted(pairs, f) == [i \in 1..Len(pairs) |-> pairs[f[i]]]

\* C2: the counters after feeding a sequence of (ground truth, prediction)
\* pairs to a reset engine are those after feeding the same pairs in any
\* other order: case-level, per severity and per category.
C2_OrderIndependent ==
    \A f \in Orderings(Len(fed)) : Replay(reset, Permuted(fed, f)) = Engine

\* three different test cases fed, falling in different buckets
C2_Witness ==
    /\ Len(fed) = 3
    /\ fed[1] # fed[2] /\ fed[2] # fed[3] /\ fed[1] # fed[3]
    /\ true_positives = 1 /\ false_negatives = 1 /\ false_positives = 1
    /\ severity_stats["critical"]["fn"] >= 1
    /\ severity_stats["warning"]["fp"] >= 1

LastRun == runs[Len(runs)]
\* the latest call on data got as far as writing the output file
Wrote == runs # <<>> /\ LastRun.wrote # <<>>
Output == LastRun.wrote[1]
ErrorRecords == {REC_ERR_A, REC_ERR_B}
ValidRecords == Records \ ErrorRecords
CountIn(list, S) == Cardinality({i \in 1..Len(list) : list[i] \in S})
Total == Len(data)
\* int(N * r): the double product, truncated
TruncTarget == Trunc(FMulInt(Total, target_ratio))
\* round(x) of a double x >= 0: to the nearest integer, halves to the even one
RoundHalfEven(a) ==
    IF a.hi % Base > Base \div 2 \/ (a.hi % Base = Base \div 2 /\ a.lo > 0)
    THEN (a.hi \div Base) + 1
    ELSE IF a.hi % Base = Base \div 2 THEN (a.hi \div Base) + ((a.hi \div Base) % 2)
    ELSE a.hi \div Base
RoundTarget == RoundHalfEven(FMulInt(Total, target_ratio))

\* C7 as stated: the output holds at most round(N*r) has_errors records and at
\* most N - round(N*r) records without errors.
C7_RoundBounds ==
    Wrote =>
        /\ CountIn(Output, ErrorRecords) <= RoundTarget
        /\ CountIn(Output, ValidRecords) <= Total - RoundTarget

\* C7 amended: the output holds at most int(N*r) has_errors records and at most
\* N - int(N*r) records without errors, int(N*r) being the product truncated.
C7_TruncBounds ==
    Wrote =>
        /\ CountIn(Output, ErrorRecords) <= TruncTarget
        /\ CountIn(Output, ValidRecords) <= Total - TruncTarget

\* the records without errors were cut down to N - int(N*r), which is more than
\* N - round(N*r)
C7_Witness ==
    /\ Wrote
    /\ CountIn(data, ValidRecords) > CountIn(Output, ValidRecords)
    /\ CountIn(Output, ValidRecords) = Total - TruncTarget
    /\ RoundTarget > TruncTarget

\* C8: two balance_dataset calls on the same input and target_ratio write the
\* same records in the same order and return the same, whatever the generator
\* was used for before each of them.
C8_Reproducible ==
    Len(runs) = 2 =>
        /\ runs[1].wrote = runs[2].wrote
        /\ runs[1].result = runs[2].result

\* two calls that found the generator in different states, sampled and shuffled
C8_Witness ==
    /\ Len(runs) = 2
    /\ runs[1].at_seed # runs[2].at_seed
    /\ Wrote
    /\ Len(Output) >= 2
    /\ Len(Output) < Total
    /\ Output # SubSeq(data, 1, Len(Output))

\* C9: every output record is an input record and is there at most as often as
\* in the input; a partition within its target is written in full, a partition
\* above its target contributes exactly the target; the output has at most N
\* records.
C9_NeverUpsamples ==
    Wrote =>
        /\ \A i \in 1..Len(Output) : \E j \in 1..Total : Output[i] = data[j]
        /\ \A x \in Records : CountIn(Output, {x}) <= CountIn(data, {x})
        /\ CountIn(data, ErrorRecords) <= TruncTarget =>
              \A x \in ErrorRecords : CountIn(Output, {x}) = CountIn(data, {x})
        /\ CountIn(data, ValidRecords) <= Total - TruncTarget =>
              \A x \in ValidRecords : CountIn(Output, {x}) = CountIn(data, {x})
        /\ CountIn(data, ErrorRecords) > TruncTarget =>
              CountIn(Output, ErrorRecords) = TruncTarget
        /\ CountIn(data, ValidRecords) > Total - TruncTarget =>
              CountIn(Output, ValidRecords) = Total - TruncTarget
        /\ Len(Output) <= Total

\* a partition below its target kept in full next to one that was cut, on an
\* input that holds a record twice
C9_Witness ==
    /\ Wrote
    /\ CountIn(data, ErrorRecords) > 0
    /\ CountIn(data, ErrorRecords) < TruncTarget
    /\ CountIn(data, ValidRecords) > Total - TruncTarget
    /\ CountIn(data, {REC_VALID}) > 1
    /\ Len(Output) < Total

(***************************************************************************)
(* Properties of filter_dataset, checked under SpecFilter.                 *)
(***************************************************************************)
Stats == filter_stats[1]
\* the removal reasons in the order of the predicates
ReasonOrder ==
    << "no_config_files", "diff_too_small", "diff_too_large", "low_confidence",
       "requires_manual_review", "has_errors_mismatch", "category_mismatch",
       "severity_mismatch" >>
ConfigFiles == {FILE_YAML, FILE_JSON_NEWLINE}
Field(pr, key, default) ==
    IF "ground_truth" \in DOMAIN pr /\ key \in DOMAIN pr.ground_truth
    THEN pr.ground_truth[key] ELSE default
\* does the record fail the k-th predicate under the filters f
Fails(k, pr, f) ==
    CASE k = 1 -> "files" \notin DOMAIN pr
                  \/ \A i \in 1..Len(pr.files) : pr.files[i] \notin ConfigFiles
      [] k = 2 -> "diff" \notin DOMAIN pr \/ pr.diff < 50
      [] k = 3 -> "diff" \in DOMAIN pr /\ pr.diff > 50000
      [] k = 4 -> "min_confidence" \in DOMAIN f
                  /\ FLt(Field(pr, "confidence", F_ZERO), f.min_confidence)
      [] k = 5 -> /\ "exclude_needs_review" \in DOMAIN f /\ f.exclude_needs_review
                  /\ "requires_manual_review" \in DOMAIN pr
                  /\ pr.requires_manual_review
      [] k = 6 -> "has_errors" \in DOMAIN f
                  /\ Field(pr, "has_errors", FALSE) # f.has_errors
      [] k = 7 -> /\ "categories" \in DOMAIN f /\ f.categories # <<>>
                  /\ \A i \in 1..Len(f.categories) :
                        Field(pr, "category", NoValue) # f.categories[i]
      [] k = 8 -> /\ "severities" \in DOMAIN f /\ f.severities # <<>>
                  /\ \A i \in 1..Len(f.severities) :
                        Field(pr, "severity", NoValue) # f.severities[i]
Failed(pr, f) == {k \in 1..8 : Fails(k, pr, f)}
\* the records of the input whose first failed predicate is the k-th
FirstFailedAt(k) ==
    {i \in 1..Len(filter_input) :
        /\ k \in Failed(filter_input[i], filters)
        /\ \A j \in Failed(filter_input[i], filters) : k <= j}
Passes(pr) == Failed(pr, filters) = {}

\* C10: every removed record is counted under the reason of the first predicate
\* it fails in the fixed order, and under no other reason; the records that
\* fail none are the ones written.
C10_FirstFailingPredicate ==
    filter_stats # <<>> =>
        /\ \A k \in 1..8 :
              Get(Stats.removal_reasons, ReasonOrder[k], 0)
                  = Cardinality(FirstFailedAt(k))
        /\ DOMAIN Stats.removal_reasons \subseteq {ReasonOrder[k] : k \in 1..8}
        /\ Stats.removed
              = Cardinality({i \in 1..Len(filter_input) : ~Passes(filter_input[i])})
        /\ filter_output[1] = SelectSeq(filter_input, Passes)

\* two records removed for the same reason, one of them failing three
\* predicates or more
C10_Witness ==
    /\ filter_stats # <<>>
    /\ \E k \in 1..8 : Get(Stats.removal_reasons, ReasonOrder[k], 0) = 2
    /\ \E i \in 1..Len(filter_input) :
          Cardinality(Failed(filter_input[i], filters)) >= 3

\* what the caller's filters ask for
CallerThreshold(f) == IF "min_confidence" \in DOMAIN f THEN f.min_confidence ELSE F_ZERO
FilterEnabled(f, key) == key \in DOMAIN f /\ f[key] # <<>>
NoOptionalFilter(f) == DOMAIN f \subseteq {"min_confidence"}
HasConfigFile(pr) ==
    "files" \in DOMAIN pr /\ \E i \in 1..Len(pr.files) : pr.files[i] \in ConfigFiles
DiffInRange(pr) == "diff" \in DOMAIN pr /\ pr.diff \in 50..50000
OptionalPass(pr, f) ==
    /\ ("exclude_needs_review" \in DOMAIN f /\ f.exclude_needs_review) =>
          ~("requires_manual_review" \in DOMAIN pr /\ pr.requires_manual_review)
    /\ "has_errors" \in DOMAIN f => Field(pr, "has_errors", FALSE) = f.has_errors
    /\ FilterEnabled(f, "categories") =>
          \E i \in 1..Len(f.categories) : Field(pr, "category", NoValue) = f.categories[i]
    /\ FilterEnabled(f, "severities") =>
          \E i \in 1..Len(f.severities) : Field(pr, "severity", NoValue) = f.severities[i]
Qualifies(pr) ==
    /\ HasConfigFile(pr)
    /\ DiffInRange(pr)
    /\ ~FLt(Field(pr, "confidence", F_ZERO), CallerThreshold(filters))
    /\ OptionalPass(pr, filters)

Validated == validation # <<>>
Validation == validation[1]
IsList == benchmark_file[1].kind = "list"
BenchmarkItems == benchmark_file[1].val
IsMapping(v) == v.kind = "dict"

\* C12: for every content of the input file, validate_dataset ends by
\* returning a bool (pass or fail), never with an exception.
C12_NeverRaises == Validated => Validation.raised = "" /\ Validation.returned # <<>>

\* item lacks the top-level field f
LacksField(item, f) == ~IsMapping(item) \/ f \notin DOMAIN item.val
\* item has a ground truth, and it lacks the field f
LacksGroundTruthField(item, f) ==
    /\ IsMapping(item)
    /\ "ground_truth" \in DOMAIN item.val
    /\ LacksField(item.val.ground_truth, f)
\* item has a confidence outside [0, 1]
ConfidenceOutside(item) ==
    /\ IsMapping(item)
    /\ "ground_truth" \in DOMAIN item.val
    /\ IsMapping(item.val.ground_truth)
    /\ "confidence" \in DOMAIN item.val.ground_truth.val
    /\ \/ item.val.ground_truth.val.confidence.kind \notin {"int", "float", "bool"}
       \/ ~InUnitRange(item.val.ground_truth.val.confidence)
HasViolation(item) ==
    \/ \E f \in {"id", "repo", "pr_number", "diff", "ground_truth"} : LacksField(item, f)
    \/ \E f \in {"has_errors", "confidence"} : LacksGroundTruthField(item, f)
    \/ ConfidenceOutside(item)
\* the violations reported include one naming item i (from 0) and field f
Reported(i, what, f) ==
    \E k \in 1..Len(Validation.printed) :
        Validation.printed[k] = [index |-> i, what |-> what, field |-> f]
ReturnedIs(b) == Validation.raised = "" /\ Validation.returned = <<b>>

\* C13: for every benchmark file (a list of items), every item i and every
\* required field f the item lacks, validate_dataset returns False and reports
\* a violation naming i and f; it returns True iff no item has a violation.
C13_EveryMissingFieldReported ==
    (Validated /\ IsList) =>
        /\ \A i \in 1..Len(BenchmarkItems) :
              /\ \A f \in {"id", "repo", "pr_number", "diff", "ground_truth"} :
                    LacksField(BenchmarkItems[i], f) =>
                        ReturnedIs(FALSE) /\ Reported(i - 1, "item", f)
              /\ \A f \in {"has_errors", "confidence"} :
                    LacksGroundTruthField(BenchmarkItems[i], f) =>
                        ReturnedIs(FALSE) /\ Reported(i - 1, "ground_truth", f)
        /\ ReturnedIs(TRUE) <=>
              \A i \in 1..Len(BenchmarkItems) : ~HasViolation(BenchmarkItems[i])

(***************************************************************************)
(* Properties of DataFilter.convert_to_benchmark_format                    *)
(***************************************************************************)
Converted == converted # <<>>
Benchmark == benchmark_file[1].val
HasFields(v, fields) == IsMapping(v) /\ fields \subseteq DOMAIN v.val

\* C14: every item of the benchmark file convert writes carries id, name,
\* diff and a ground_truth holding has_errors and confidence, and
\* validate_dataset run on that file returns True.
C14_ConvertedFilePasses ==
    /\ Converted =>
          \A i \in 1..Len(Benchmark) :
              /\ HasFields(Benchmark[i], {"id", "name", "diff", "ground_truth"})
              /\ HasFields(Benchmark[i].val.ground_truth, {"has_errors", "confidence"})
    /\ (Converted /\ Validated) => ReturnedIs(TRUE)

\* the number of records a limit of max_items leaves of n
Limited(n) ==
    IF max_items = <<>> \/ max_items[1] > n THEN n ELSE max_items[1]
ErrorsOf(i) == Benchmark[i].val.ground_truth.val.errors.val
LabelOf(i, key) == convert_input[i].ground_truth[key]
IsLabelled(i, key) == key \in DOMAIN convert_input[i].ground_truth

\* C15: the benchmark items are the input records one for one and in input
\* order, the first max_items of them when a limit is given; an item's error
\* list holds exactly one placeholder with the record's labelled severity and
\* category when the record has has_errors = true, and is empty otherwise.
C15_OneForOneInOrder ==
    Converted =>
        /\ Len(Benchmark) = Limited(Len(convert_input))
        /\ converted[1] = Limited(Len(convert_input))
        /\ \A i \in 1..Len(Benchmark) :
              i <= Len(convert_input) =>
                  /\ Benchmark[i].val.id = JStr(convert_input[i].id)
                  /\ Benchmark[i].val.diff = JStr(convert_input[i].diff)
                  /\ LabelOf(i, "has_errors") =>
                        /\ Len(ErrorsOf(i)) = 1
                        /\ IsLabelled(i, "severity") =>
                              ErrorsOf(i)[1].val.severity = JStr(LabelOf(i, "severity"))
                        /\ IsLabelled(i, "category") =>
                              ErrorsOf(i)[1].val.category = JStr(LabelOf(i, "category"))
                  /\ ~LabelOf(i, "has_errors") => ErrorsOf(i) = <<>>

(***************************************************************************)
(* Properties of the BenchmarkRunner                                       *)
(***************************************************************************)
Counted(e) ==
    e.true_positives + e.false_positives + e.true_negatives + e.false_negatives
\* the validator calls made for test case number i while evaluating a model
CallsFor(model_name, i) ==
    {k \in 1..Len(calls) : calls[k].model = model_name /\ calls[k].at = i}
\* the (ground truth, prediction) pairs of a list of detailed results
PairsOf(detailed) ==
    [i \in 1..Len(detailed) |->
        [ground_truth |-> detailed[i].ground_truth,
         prediction |-> detailed[i].prediction.val]]
\* what holds of an evaluation, finished or in progress, after n test cases
Isolated(c, n) ==
    /\ Counted(c.metrics) = n
    /\ Len(c.detailed_results) = n
    /\ c.metrics = Replay(reset, PairsOf(c.detailed_results))
    /\ \A i \in 1..n :
          /\ c.detailed_results[i].test_id = benchmark_data[i].id
          /\ Cardinality(CallsFor(c.model, i)) = 1
          /\ \A k \in CallsFor(c.model, i) :
                calls[k].outcome.raises =>
                    /\ c.detailed_results[i].prediction =
                           FailedPrediction(calls[k].outcome.message)
                    /\ ~c.detailed_results[i].success
\* the call that made the run end, if a call did
LastCall == calls[Len(calls)]

\* C16: the validator is called once per model and test case; a call that
\* raises gives the prediction {has_errors: false, errors: []} with success =
\* false, which is folded into the model's own metrics, and the evaluation
\* goes on: a model evaluated over N test cases has TP+FP+TN+FN = N and N
\* detailed results in benchmark order, whatever was evaluated before it.
C16_FailureIsolation ==
    /\ \A m \in 1..Len(results) : Isolated(results[m], Len(benchmark_data))
    /\ current # <<>> => Isolated(current[1], Len(current[1].detailed_results))
    /\ (run_raised # "" /\ benchmark_data # <<>>) => ~LastCall.outcome.raises
C16_Witness ==
    /\ Len(results) = 2
    /\ Len(benchmark_data) >= 2
    /\ \E k \in 1..Len(calls) :
          calls[k].model = results[2].model /\ calls[k].at = 1 /\ calls[k].outcome.raises
    /\ \E k \in 1..Len(calls) :
          calls[k].model = results[1].model /\ calls[k].outcome.raises

\* the validator returned something that is not a prediction: not a mapping,
\* or an error entry whose file_path or option_name is not a string
MalformedEntry(e) == e.file_path = NotAString \/ e.option_name = NotAString
Malformed(outcome) ==
    /\ ~outcome.raises
    /\ \/ outcome.returns.kind # "dict"
       \/ \E i \in 1..Len(outcome.returns.val.errors) :
              MalformedEntry(outcome.returns.val.errors[i])
\* the detailed results written so far for a model
DetailedOf(model_name) ==
    IF current # <<>> /\ current[1].model = model_name
    THEN current[1].detailed_results
    ELSE IF \E m \in 1..Len(results) : results[m].model = model_name
    THEN results[CHOOSE m \in 1..Len(results) : results[m].model = model_name]
             .detailed_results
    ELSE <<>>

\* C17: no validator output makes the run abort; a malformed output is
\* replaced by the empty prediction {has_errors: false, errors: []}.
C17_MalformedOutputSubstituted ==
    /\ (run_raised # "" => benchmark_data = <<>>)
    /\ \A k \in 1..Len(calls) :
          (Malformed(calls[k].outcome) /\ calls[k].at <= Len(DetailedOf(calls[k].model)))
              => /\ DetailedOf(calls[k].model)[calls[k].at].prediction.kind = "dict"
                 /\ DetailedOf(calls[k].model)[calls[k].at].prediction.val.errors = <<>>
                 /\ ~DetailedOf(calls[k].model)[calls[k].at].prediction.val.has_errors

(***************************************************************************)
(* Properties of the GitHubCollector                                       *)
(***************************************************************************)
SameStrategy(j, k) == page_requests[j].strategy = page_requests[k].strategy
\* the page requests of the strategy of request k, up to k
UpTo(k) == {j \in 1..k : SameStrategy(j, k)}
\* the hits a request brought in
HitsOf(k) ==
    IF _make_request(page_requests[k].answer) = <<>> THEN 0
    ELSE Len(page_requests[k].answer.body[1].items)
\* the hits the requests of the strategy of request k brought in, up to k
RECURSIVE HitsUpTo(_, _)
HitsUpTo(k, j) ==
    IF j = 0 THEN 0
    ELSE (IF SameStrategy(j, k) THEN HitsOf(j) ELSE 0) + HitsUpTo(k, j - 1)
\* request k is one of the events that end the page loop
StopEvent(k) ==
    \/ page_requests[k].answer.error # ""
    \/ page_requests[k].answer.status # HTTP_OK
    \/ HitsOf(k) = 0
    \/ page_requests[k].answer.body[1].incomplete_results
    \/ HitsUpTo(k, k) >= max_per_strategy
\* the latest page request belongs to the strategy being processed
LatestIsCurrent ==
    page_requests # <<>> /\ page_requests[Len(page_requests)].strategy = position
MinOf(a, b) == IF a < b THEN a ELSE b
InSearch == stage = "search"

PageLoopStops ==
    /\ \A k \in 1..Len(page_requests) :
          /\ page_requests[k].page = Cardinality(UpTo(k))
          /\ StopEvent(k) =>
                \A j \in (k + 1)..Len(page_requests) : ~SameStrategy(j, k)
    /\ Len(hits) <= max_per_strategy
    /\ (stage = "enrich" /\ LatestIsCurrent) =>
          Len(hits) = MinOf(max_per_strategy,
                            HitsUpTo(Len(page_requests), Len(page_requests)))

\* C18: the page loop of a strategy terminates and returns at most
\* max_results hits; it requests pages 1, 2, 3, ... and none after the first
\* of: max_results hits gathered, an empty page, a failed or rate-limited
\* request, an incomplete response, whose hits are kept.
C18_PageLoopTerminates == []PageLoopStops /\ (InSearch ~> ~InSearch)
C18_Witness ==
    /\ stage = "enrich"
    /\ Len(page_requests) = 2
    /\ LatestIsCurrent
    /\ SameStrategy(1, 2)
    /\ page_requests[2].answer.error = ""
    /\ page_requests[2].answer.status = HTTP_OK
    /\ HitsOf(2) = 1
    /\ page_requests[2].answer.body[1].incomplete_results
    /\ Len(hits) = 2

RateLimited(k) ==
    page_requests[k].answer.error = "" /\ page_requests[k].answer.status = HTTP_FORBIDDEN
Known(s) == strategies[s] \in DOMAIN strategy_queries

\* C19: a search page answered with 403 is not requested again and no later
\* page of the strategy is requested; the hits of the earlier pages are
\* returned and enriched; the remaining strategies are still processed; no
\* (strategy, page) is requested twice in a collect run.
C19_NoRetryOnRateLimit ==
    /\ \A k \in 1..Len(page_requests) :
          /\ \A j \in 1..(k - 1) :
                ~(SameStrategy(j, k) /\ page_requests[j].page = page_requests[k].page)
          /\ RateLimited(k) =>
                \A j \in (k + 1)..Len(page_requests) : ~SameStrategy(j, k)
    /\ (LatestIsCurrent /\ RateLimited(Len(page_requests))) =>
          /\ ~InSearch
          /\ Len(hits) = HitsUpTo(Len(page_requests), Len(page_requests))
          /\ handled = Len(enrich_log)
    /\ stage = "returned" =>
          /\ position = Len(strategies)
          /\ handled = Len(hits)
          /\ max_per_strategy > 0 =>
                \A s \in 1..Len(strategies) :
                    Known(s) => \E k \in 1..Len(page_requests) :
                                   page_requests[k].strategy = s
C19_Witness ==
    /\ stage = "returned"
    /\ Len(page_requests) = 3
    /\ page_requests[1].strategy = 1 /\ HitsOf(1) = 1
    /\ page_requests[2].strategy = 1 /\ RateLimited(2)
    /\ page_requests[3].strategy = 2
    /\ Len(all_data) >= 1

\* C20: after an enrichment request failed with a transient error (403 or
\* timeout) no enrichment request is issued for the remaining hits of the
\* strategy, and collect_dataset returns the records accumulated.
C20_EnrichmentEndsEarly ==
    /\ \A k \in 1..Len(enrich_log) :
          enrich_log[k].transient =>
              \A j \in (k + 1)..Len(enrich_log) : enrich_log[j].requests = <<>>
    /\ stage = "returned" => collected = <<all_data>>

(***************************************************************************)
(* Accumulation and matching properties of EvaluationMetrics               *)
(***************************************************************************)
CaseCounters == {"true_positives", "false_positives", "true_negatives", "false_negatives"}
StatKinds == {"tp", "fp", "fn"}
\* no counter of the table now is below its value in the table then
NotBelow(then, now) ==
    \A key \in DOMAIN then :
        key \in DOMAIN now /\ \A k \in StatKinds : now[key][k] >= then[key][k]
AllZero(table) == \A key \in DOMAIN table : \A k \in StatKinds : table[key][k] = 0

\* C21: every add_prediction raises exactly one of TP, FP, TN, FN by one and
\* leaves the other three; no counter decreases except through reset, which
\* zeroes all of them; TP+FP+TN+FN is the number of calls since the last reset.
C21_StrictAccumulation ==
    /\ last_op = "add" =>
          /\ \E c \in CaseCounters :
                /\ Engine[c] = before[c] + 1
                /\ \A d \in CaseCounters \ {c} : Engine[d] = before[d]
          /\ NotBelow(before.severity_stats, severity_stats)
          /\ NotBelow(before.category_stats, category_stats)
    /\ last_op = "reset" =>
          /\ \A c \in CaseCounters : Engine[c] = 0
          /\ AllZero(severity_stats)
          /\ AllZero(category_stats)
    /\ Counted(Engine) = Len(fed)
C21_Witness ==
    /\ last_op = "add"
    /\ Len(fed) = 2
    /\ pending # <<>>
    /\ Counted(before) = 1
    /\ before.severity_stats # severity_stats
    /\ before.category_stats # <<>>


\* C22: an add_prediction whose ground truth lists no individual error leaves
\* every per-severity and per-category counter unchanged, whatever errors the
\* prediction lists.
C22_NoGroundTruthErrorsNoStats ==
    (Added /\ Get(LastGT, "errors", <<>>) = <<>>) =>
        /\ severity_stats = before.severity_stats
        /\ category_stats = before.category_stats

\* the (predicted index, ground-truth index) pairs the latest add_prediction
\* made, in the order it made them
MatchingOf(gt_errors, pred_errors) ==
    MatchLoop(gt_errors, pred_errors, 1,
              [ matched_gt |-> {}, matched_pred |-> {}, pairs |-> <<>>,
                sev |-> before.severity_stats, cat |-> before.category_stats ]).pairs
SameKey(pred_error, gt_error) ==
    /\ SameFile(pred_error.file_path, gt_error.file_path)
    /\ SameOption(pred_error.option_name, gt_error.option_name)
OneToOne(p) ==
    \A a, b \in 1..Len(p) : a # b => (p[a][1] # p[b][1] /\ p[a][2] # p[b][2])
InListOrder(p) == \A a, b \in 1..Len(p) : a < b => p[a][1] < p[b][1]
\* ground-truth error j was taken before the a-th pair was made
TakenBefore(p, a, j) == \E b \in 1..(a - 1) : p[b][2] = j
\* ground-truth error j was taken by a predicted error before i
TakenAhead(p, i, j) == \E b \in 1..Len(p) : p[b][1] < i /\ p[b][2] = j
LowestUnmatched(p, gt_errors, pred_errors) ==
    /\ \A a \in 1..Len(p) :
          /\ SameKey(pred_errors[p[a][1]], gt_errors[p[a][2]])
          /\ ~TakenBefore(p, a, p[a][2])
          /\ \A j \in 1..(p[a][2] - 1) :
                SameKey(pred_errors[p[a][1]], gt_errors[j]) => TakenBefore(p, a, j)
    /\ \A i \in 1..Len(pred_errors) :
          (\A a \in 1..Len(p) : p[a][1] # i) =>
              \A j \in 1..Len(gt_errors) :
                  SameKey(pred_errors[i], gt_errors[j]) => TakenAhead(p, i, j)

\* C23: within one add_prediction every predicted error is matched to at most
\* one ground-truth error and every ground-truth error to at most one
\* predicted error; predicted errors are processed in list order, and the
\* ground-truth error credited to a predicted error is the lowest-index one
\* still unmatched at that moment with an equal normalized path and a
\* case-insensitively equal option name; the matched pairs are the true
\* positives the call adds.
C23_FirstFitOneToOne ==
    Added =>
        /\ OneToOne(MatchingOf(LastGT.errors, LastPred.errors))
        /\ InListOrder(MatchingOf(LastGT.errors, LastPred.errors))
        /\ LowestUnmatched(MatchingOf(LastGT.errors, LastPred.errors),
                           LastGT.errors, LastPred.errors)
        /\ SevGain("critical", "tp") + SevGain("warning", "tp")
             = Cardinality({a \in 1..Len(MatchingOf(LastGT.errors, LastPred.errors)) :
                   SevOf(LastGT.errors[MatchingOf(LastGT.errors, LastPred.errors)[a][2]])
                       \in TrackedSeverities})

\* two ground-truth errors with the same key and two predicted errors with
\* that key: the first predicted error takes the first, the second the second
C23_Witness ==
    /\ Added
    /\ LastGT.errors = <<E_CRITICAL, E_HIGH>>
    /\ LastPred.errors = <<E_HIGH, E_CRITICAL>>
    /\ MatchingOf(LastGT.errors, LastPred.errors) = <<(<<1, 1>>), (<<2, 2>>)>>
    /\ SevGain("critical", "tp") = 1

\* the sum of counter k over the keys of a stats table
RECURSIVE SumOver(_, _, _)
SumOver(table, keys, k) ==
    IF keys = {} THEN 0
    ELSE SumOver(table, keys \ {CHOOSE key \in keys : TRUE}, k)
           + table[CHOOSE key \in keys : TRUE][k]
SevSum(k) == SumOver(severity_stats, DOMAIN severity_stats, k)
CatSum(k) == SumOver(category_stats, DOMAIN category_stats, k)
\* every error fed since the last reset, as (call, index in its list)
GtFed == UNION {{<<n, j>> : j \in 1..Len(fed[n].ground_truth.errors)} : n \in 1..Len(fed)}
PredFed == UNION {{<<n, i>> : i \in 1..Len(fed[n].prediction.errors)} : n \in 1..Len(fed)}
\* the pairs call n made, and the severity a predicted error was counted under:
\* that of the ground-truth error it matched, its own when it matched none
PairsAt(n) == MatchingOf(fed[n].ground_truth.errors, fed[n].prediction.errors)
CountedUnder(n, i) ==
    IF \E a \in 1..Len(PairsAt(n)) : PairsAt(n)[a][1] = i
    THEN SevOf(fed[n].ground_truth.errors[
             PairsAt(n)[CHOOSE a \in 1..Len(PairsAt(n)) : PairsAt(n)[a][1] = i][2]])
    ELSE SevOf(fed[n].prediction.errors[i])

\* C24: after any sequence of add_prediction calls the per-severity sums
\* equal the per-category sums: the sum of (tp + fn) is the number of
\* ground-truth errors fed and the sum of (tp + fp) the number of predicted
\* errors fed, at both granularities.
C24_PerErrorAccounting ==
    /\ SevSum("tp") + SevSum("fn") = Cardinality(GtFed)
    /\ SevSum("tp") + SevSum("fp") = Cardinality(PredFed)
    /\ CatSum("tp") + CatSum("fn") = Cardinality(GtFed)
    /\ CatSum("tp") + CatSum("fp") = Cardinality(PredFed)

\* C24 amended: the per-category sums count every error fed; the per-severity
\* sums count the errors that were counted under critical, warning or info
\* (warning when the error gives no severity) and no other.
C24_TrackedSeverityAccounting ==
    /\ CatSum("tp") + CatSum("fn") = Cardinality(GtFed)
    /\ CatSum("tp") + CatSum("fp") = Cardinality(PredFed)
    /\ SevSum("tp") + SevSum("fn")
         = Cardinality({s \in GtFed :
               SevOf(fed[s[1]].ground_truth.errors[s[2]]) \in TrackedSeverities})
    /\ SevSum("tp") + SevSum("fp")
         = Cardinality({s \in PredFed : CountedUnder(s[1], s[2]) \in TrackedSeverities})

\* two calls fed; the latest matched a predicted error of an untracked
\* severity to a critical ground-truth error and left one of each unmatched
C24_Witness ==
    /\ Added /\ Len(fed) = 2
    /\ LastGT.errors = <<E_CRITICAL, E_HIGH>>
    /\ LastPred.errors = <<E_HIGH, E_NOSEV>>
    /\ SevSum("tp") + SevSum("fn") < CatSum("tp") + CatSum("fn")
    /\ SevGain("critical", "tp") = 1 /\ SevGain("warning", "fp") = 1

\* how many errors of a list have a key, and the sum over a set of keys of the
\* lesser of the two counts
CountKey(errs, key) == Cardinality({j \in 1..Len(errs) : KeyOf[errs[j]] = key})
Lesser(a, b) == IF a <= b THEN a ELSE b
RECURSIVE SumOfMin(_, _, _)
SumOfMin(gt_errors, pred_errors, keys) ==
    IF keys = {} THEN 0
    ELSE SumOfMin(gt_errors, pred_errors, keys \ {CHOOSE key \in keys : TRUE})
           + Lesser(CountKey(pred_errors, CHOOSE key \in keys : TRUE),
                    CountKey(gt_errors, CHOOSE key \in keys : TRUE))
Keys == {KeyOf[e] : e \in Errors}
\* the error-level total of counter k in an engine state
ErrorTotal(e, k) == SumOver(e.category_stats, DOMAIN e.category_stats, k)
\* the latest call with its two error lists reordered
Reordered(f, g) ==
    add_prediction(before, [LastGT EXCEPT !.errors = Permuted(@, g)],
                           [LastPred EXCEPT !.errors = Permuted(@, f)])

\* C27: in one add_prediction the number of matched pairs is the sum over all
\* (normalized path, lowercased option name) keys of min(predicted errors
\* with the key, ground-truth errors with the key), and the total numbers of
\* error-level true positives, false positives and false negatives the call
\* adds are the same for every order of either list.
C27_FirstFitIsMaximum ==
    Added =>
        /\ Len(MatchingOf(LastGT.errors, LastPred.errors))
             = SumOfMin(LastGT.errors, LastPred.errors, Keys)
        /\ CatSum("tp") - ErrorTotal(before, "tp")
             = SumOfMin(LastGT.errors, LastPred.errors, Keys)
        /\ CatSum("fp") - ErrorTotal(before, "fp")
             = Len(LastPred.errors) - SumOfMin(LastGT.errors, LastPred.errors, Keys)
        /\ CatSum("fn") - ErrorTotal(before, "fn")
             = Len(LastGT.errors) - SumOfMin(LastGT.errors, LastPred.errors, Keys)
        /\ \A f \in Orderings(Len(LastPred.errors)) :
             \A g \in Orderings(Len(LastGT.errors)) :
                 \A k \in StatKinds : ErrorTotal(Reordered(f, g), k) = CatSum(k)

\* a key listed twice by the ground truth and once by the prediction, next to
\* a predicted error of another key
C27_Witness ==
    /\ Added
    /\ LastGT.errors = <<E_HIGH, E_CRITICAL>>
    /\ LastPred.errors = <<E_CRITICAL, E_NOSEV>>
    /\ CountKey(LastGT.errors, KeyOf[E_CRITICAL]) = 2
    /\ Len(MatchingOf(LastGT.errors, LastPred.errors)) = 1
    /\ CatSum("fn") - ErrorTotal(before, "fn") = 1

(***************************************************************************)
(* Completion of balance_dataset, checked under SpecBalance.               *)
(***************************************************************************)
Raised(run) == "raised" \in DOMAIN run.result

\* C30: for every non-empty input collection and every target_ratio in [0,1]
\* balance_dataset returns its statistics and raises no error, also when the
\* balanced output is empty; no call leaves an output file written while
\* reporting failure.
C30_BalanceCompletes ==
    \A n \in 1..Len(runs) :
        /\ data # <<>> => ~Raised(runs[n])
        /\ Raised(runs[n]) => runs[n].wrote = <<>>

(***************************************************************************)
(* Properties of manual review, checked under SpecReview.                  *)
(***************************************************************************)
\* every record of the labeled file, of the reviewer and of the reviewed file
RecordsOf(file) == IF file = <<>> THEN {} ELSE {file[1][i] : i \in 1..Len(file[1])}
AllRecords ==
    RecordsOf(labeled) \cup RecordsOf(<<review_data>>) \cup RecordsOf(reviewed_file)
Defined(gt, key) == Get(gt, key, NoValue) # NoValue

\* C25: in every record state reachable by label_pr followed by manual-review
\* actions (accept, edit with any answers, skip, delete) the severity of the
\* ground truth is defined iff has_errors is true, and likewise the category.
C25_LabelInvariant ==
    \A rec \in AllRecords :
        /\ Defined(rec.ground_truth, "severity") <=> rec.ground_truth.has_errors
        /\ Defined(rec.ground_truth, "category") <=> rec.ground_truth.has_errors

Excluded(item) == Get(item, "excluded", FALSE)
NoneExcluded(file) == \A rec \in RecordsOf(file) : ~Excluded(rec)
ExcludedIds == {rec.id : rec \in {r \in RecordsOf(reviewed_file) : Excluded(r)}}

\* C26: a record the reviewer deleted appears in no output of a later
\* filter, balance or convert run over the reviewed file, and in no
\* benchmark built from it.
C26_DeletedIsExcluded ==
    /\ NoneExcluded(filter_output)
    /\ NoneExcluded(output_file)
    /\ benchmark_file # <<>> =>
          \A k \in 1..Len(Benchmark) : Benchmark[k].val.id.val \notin ExcludedIds

\* C28: requires_manual_review = (confidence < 0.8) holds for every record at
\* every stage, in particular after a manual-review edit, which sets the
\* confidence to 1.0; a later filter with exclude_needs_review keeps an
\* edited record.
C28_ReviewFlagTracksConfidence ==
    /\ \A rec \in AllRecords :
          rec.requires_manual_review = NeedsReview(rec.ground_truth.confidence)
    /\ (filter_stats # <<>> /\ Get(filters, "exclude_needs_review", FALSE)) =>
          \A i \in 1..Len(filter_input) :
              filter_input[i].ground_truth.confidence = F_ONE =>
                  InList(filter_input[i], filter_output[1])

(***************************************************************************)
(* Properties of the build pipeline, checked under SpecBuild.              *)
(***************************************************************************)
AllHaveErrors(file) == \A rec \in RecordsOf(file) : HasErrors(rec)
AboveCut(min_confidence) == FLt(DECISION_THRESHOLD, min_confidence)
\* the collected file labelled without a threshold, then filtered with one
FilteredAlone(min_confidence) ==
    filter_dataset(label_dataset(collected[1], F_ZERO).labeled_data,
                   [min_confidence |-> min_confidence]).filtered_data

\* C29: a record label_pr labelled has_errors = false has confidence <= 0.6,
\* so label_dataset or filter run with min_confidence > 0.6 keeps no such
\* record; the build pipeline with such a threshold hands balance a
\* collection with an empty no_errors partition, and the benchmark holds
\* only has_errors = true items whatever target_ratio is.
C29_ThresholdRemovesNegatives ==
    /\ \A rec \in RecordsOf(<<label_dataset(collected[1], F_ZERO).labeled_data>>) :
          ~HasErrors(rec) => FLe(rec.ground_truth.confidence, DECISION_THRESHOLD)
    /\ \A c \in MinConfidences :
          AboveCut(c) =>
              /\ AllHaveErrors(<<label_dataset(collected[1], c).labeled_data>>)
              /\ AllHaveErrors(<<FilteredAlone(c)>>)
    /\ AboveCut(filters.min_confidence) =>
          /\ AllHaveErrors(labeled)
          /\ AllHaveErrors(filter_output)
          /\ SelectSeq(data, NoErrors) = <<>>
          /\ AllHaveErrors(output_file)
          /\ benchmark_file # <<>> =>
                \A k \in 1..Len(Benchmark) :
                    Benchmark[k].val.ground_truth.val.has_errors = JBool(TRUE)

\* the default threshold 0.7 on a collected file holding a record that
\* label_pr labels has_errors = false at the cut itself: the benchmark is
\* built and holds the other record only
C29_Witness ==
    /\ filters.min_confidence = Dec(70)
    /\ collected[1] = <<PR_AT_CUT, PR_REVERT>>
    /\ ~HasErrors(labeled_data(PR_AT_CUT))
    /\ converted = <<1>>
    /\ Len(Benchmark) = 1
    /\ validation # <<>>

====
